---------------------------- MODULE Spec2Model ----------------------------
(***************************************************************************)
(* Live reload of a markup-described component tree.                       *)
(*                                                                         *)
(* The repository holds two reload coordinators:                           *)
(*   "root"          src/src/main.rs                 (shared Mutex tree)   *)
(*   "configurator"  src/crates/configurator/src/hello.rs (view + event)   *)
(* Both deliver filesystem events through async_watcher and rebuild the    *)
(* tree with parse_component (src/src/component_tree.rs).                  *)
(***************************************************************************)
EXTENDS Integers, Sequences, FiniteSets, TLC

(***************************************************************************)
(* Bounds of the model.                                                    *)
(***************************************************************************)
\* Attributes of a component given to render_component.
MaxAttrs == 2
\* Children of a component given to render_component.
MaxChildren == 2
\* Filesystem events the environment raises in one run.
MaxEvents == 3
\* Tokens of a markup text given to parse_component.
MaxLen == 4
\* Class names in a class attribute given to set_attributes.
MaxClasses == 3
\* Characters after the leading '#' of a literal given to hex_to_rgb.
MaxHexDigits == 6

(***************************************************************************)
(* Strings.  A string (a file content, an element name, an attribute key   *)
(* or value, a text run, a class name, a color literal) is the sequence of *)
(* its characters.                                                         *)
(***************************************************************************)
\* The printable ASCII characters, in code order from ' ' (32) to '~' (126).
\* The grave accent (96) is written "U+0060".
Ascii ==
    <<" ", "!", "\"", "#", "$", "%", "&", "'", "(", ")", "*", "+", ",",
      "-", ".", "/", "0", "1", "2", "3", "4", "5", "6", "7", "8", "9", ":",
      ";", "<", "=", ">", "?", "@", "A", "B", "C", "D", "E", "F", "G", "H",
      "I", "J", "K", "L", "M", "N", "O", "P", "Q", "R", "S", "T", "U", "V",
      "W", "X", "Y", "Z", "[", "\\", "]", "^", "_", "U+0060", "a", "b",
      "c", "d", "e", "f", "g", "h", "i", "j", "k", "l", "m", "n", "o", "p",
      "q", "r", "s", "t", "u", "v", "w", "x", "y", "z", "{", "|", "}", "~">>

\* The characters of the Unicode property White_Space, each code with the
\* character of the model that stands for it.
White_Space ==
    <<<<9, "\t">>, <<10, "\n">>, <<11, "U+000B">>, <<12, "\f">>,
      <<13, "\r">>, <<32, " ">>, <<133, "U+0085">>, <<160, "U+00A0">>,
      <<5760, "U+1680">>, <<8192, "U+2000">>, <<8193, "U+2001">>,
      <<8194, "U+2002">>, <<8195, "U+2003">>, <<8196, "U+2004">>,
      <<8197, "U+2005">>, <<8198, "U+2006">>, <<8199, "U+2007">>,
      <<8200, "U+2008">>, <<8201, "U+2009">>, <<8202, "U+200A">>,
      <<8232, "U+2028">>, <<8233, "U+2029">>, <<8239, "U+202F">>,
      <<8287, "U+205F">>, <<12288, "U+3000">>>>

\* char::is_whitespace
WhiteChars == {White_Space[i][2] : i \in 1..Len(White_Space)}
is_whitespace(c) == c \in WhiteChars

LowerHex ==
    <<"0", "1", "2", "3", "4", "5", "6", "7", "8", "9",
      "a", "b", "c", "d", "e", "f">>
UpperHex ==
    <<"0", "1", "2", "3", "4", "5", "6", "7", "8", "9",
      "A", "B", "C", "D", "E", "F">>

\* A character outside printable ASCII that has no escape is written "U+"
\* and its code in hexadecimal, of four digits at least: each character
\* has a name of its own.
RECURSIVE HexName(_, _)
HexName(code, width) ==
    IF code = 0 /\ width <= 0 THEN ""
    ELSE HexName(code \div 16, width - 1) \o UpperHex[(code % 16) + 1]
Escapes == <<<<9, "\t">>, <<10, "\n">>, <<12, "\f">>, <<13, "\r">>>>

\* char::from_u32(code) for a valid code.
CodeChar(code) ==
    CASE code \in 32..126 -> Ascii[code - 31]
      [] \E i \in 1..Len(Escapes) : Escapes[i][1] = code ->
             Escapes[CHOOSE i \in 1..Len(Escapes) : Escapes[i][1] = code][2]
      [] OTHER -> "U+" \o HexName(code, 4)

\* c as u32
RECURSIVE NameValue(_, _, _)
NameValue(name, i, acc) ==
    IF i > Len(name) THEN acc
    ELSE NameValue(name, i + 1,
                   (acc * 16) + (CHOOSE d \in 0..15 :
                                   UpperHex[d + 1] = SubSeq(name, i, i)))
char_code(c) ==
    CASE Len(c) > 1 -> NameValue(c, 3, 0)
      [] \E i \in 1..Len(Escapes) : Escapes[i][2] = c ->
             Escapes[CHOOSE i \in 1..Len(Escapes) : Escapes[i][2] = c][1]
      [] OTHER -> (CHOOSE i \in 1..Len(Ascii) : Ascii[i] = c) + 31

(***************************************************************************)
(* UTF-8.  A String holds the bytes that encode its characters; a slice    *)
(* of it is cut at byte indices and panics when an index falls inside a    *)
(* character.                                                              *)
(***************************************************************************)
\* char::len_utf8
CodeLen(code) ==
    IF code < 128 THEN 1
    ELSE IF code < 2048 THEN 2
    ELSE IF code < 65536 THEN 3
    ELSE 4
\* The characters of the Ascii table are one byte each.
AsciiChars == {Ascii[i] : i \in 1..Len(Ascii)}
len_utf8(c) == IF c \in AsciiChars THEN 1 ELSE CodeLen(char_code(c))
\* char::encode_utf8
encode_utf8(code) ==
    IF code < 128 THEN <<code>>
    ELSE IF code < 2048 THEN <<192 + (code \div 64), 128 + (code % 64)>>
    ELSE IF code < 65536
    THEN <<224 + (code \div 4096), 128 + ((code \div 64) % 64),
          128 + (code % 64)>>
    ELSE <<240 + (code \div 262144), 128 + ((code \div 4096) % 64),
           128 + ((code \div 64) % 64), 128 + (code % 64)>>
\* str::as_bytes
RECURSIVE as_bytes(_)
as_bytes(s) ==
    IF s = <<>> THEN <<>>
    ELSE encode_utf8(char_code(Head(s))) \o as_bytes(Tail(s))
\* str::is_ascii, for the characters of the Ascii table: the bytes of such
\* a string are its characters, one for one.
is_ascii(s) == \A i \in 1..Len(s) : s[i] \in AsciiChars
\* str::len counts bytes.
RECURSIVE ByteLen(_)
ByteLen(s) == IF s = <<>> THEN 0 ELSE len_utf8(Head(s)) + ByteLen(Tail(s))
str_len(s) == IF is_ascii(s) THEN Len(s) ELSE ByteLen(s)
\* str::is_char_boundary(index), index counting bytes from 0.
RECURSIVE is_char_boundary(_, _)
is_char_boundary(s, index) ==
    IF index = 0 THEN TRUE
    ELSE IF s = <<>> \/ index < 0 THEN FALSE
    ELSE is_char_boundary(Tail(s), index - len_utf8(Head(s)))
\* &s[begin..end], begin and end counting bytes from 0: the characters
\* between two boundaries.
RECURSIVE CharsBefore(_, _)
CharsBefore(s, index) ==
    IF index <= 0 \/ s = <<>> THEN 0
    ELSE 1 + CharsBefore(Tail(s), index - len_utf8(Head(s)))
Slice(s, first, last) == [panic |-> FALSE, value |-> SubSeq(s, first, last)]
NoSlice == [panic |-> TRUE, value |-> <<>>]
str_slice(s, begin, end) ==
    IF is_ascii(s)
    THEN IF begin <= end /\ end <= Len(s)
         THEN Slice(s, begin + 1, end)
         ELSE NoSlice
    ELSE IF /\ begin <= end
            /\ is_char_boundary(s, begin)
            /\ is_char_boundary(s, end)
         THEN Slice(s, CharsBefore(s, begin) + 1, CharsBefore(s, end))
         ELSE NoSlice

\* The width of the character a byte begins, 0 when it begins none
\* (UTF8_CHAR_WIDTH), and the second bytes core::str::from_utf8 accepts
\* after it.
utf8_char_width(b) ==
    CASE b < 128 -> 1
      [] b \in 194..223 -> 2
      [] b \in 224..239 -> 3
      [] b \in 240..244 -> 4
      [] OTHER -> 0
SecondByte(b) ==
    CASE b = 224 -> 160..191
      [] b = 237 -> 128..159
      [] b = 240 -> 144..191
      [] b = 244 -> 128..143
      [] OTHER -> 128..191
\* A byte that continues a character.
Continuation(b) == b \in 128..191
\* The code of the character encoded at bytes[i].
CodeAt(bytes, i) ==
    LET w == utf8_char_width(bytes[i])
        low(k) == bytes[i + k] % 64
    IN  CASE w = 1 -> bytes[i]
          [] w = 2 -> ((bytes[i] % 32) * 64) + low(1)
          [] w = 3 -> ((bytes[i] % 16) * 4096) + (low(1) * 64) + low(2)
          [] OTHER -> ((bytes[i] % 8) * 262144) + (low(1) * 4096)
                          + (low(2) * 64) + low(3)
\* bytes[i] begins a well-formed character.
ValidAt(bytes, i) ==
    \/ bytes[i] < 128
    \/ LET w == utf8_char_width(bytes[i]) IN
       /\ w > 0
       /\ i + w - 1 <= Len(bytes)
       /\ bytes[i + 1] \in SecondByte(bytes[i])
       /\ \A k \in 2..(w - 1) : Continuation(bytes[i + k])
\* bytes[i], a continuation, is of the character begun at most three
\* bytes before it.
Belongs(bytes, i) ==
    \E k \in 1..3 :
        /\ i - k >= 1
        /\ utf8_char_width(bytes[i - k]) > k
        /\ \A m \in 1..(k - 1) : Continuation(bytes[i - m])
\* core::str::from_utf8 accepts the bytes: they are well-formed characters
\* one after the other.
run_utf8_validation(bytes) ==
    \A i \in 1..Len(bytes) :
        IF Continuation(bytes[i]) THEN Belongs(bytes, i) ELSE ValidAt(bytes, i)
\* str::chars of well-formed bytes: one character for each byte that
\* begins one.
chars(bytes) ==
    LET index == [i \in 1..Len(bytes) |-> i]
        Begins(i) == ~Continuation(bytes[i])
        begin == SelectSeq(index, Begins)
    IN  <<>> \o [k \in 1..Len(begin) |-> CodeChar(CodeAt(bytes, begin[k]))]
\* String::from_utf8(bytes)
from_utf8(bytes) ==
    IF run_utf8_validation(bytes)
    THEN [err |-> FALSE, value |-> chars(bytes)]
    ELSE [err |-> TRUE, value |-> <<>>]

IsHexDigit(c) == \E i \in 1..16 : LowerHex[i] = c \/ UpperHex[i] = c
to_digit(c) == (CHOOSE i \in 1..16 : LowerHex[i] = c \/ UpperHex[i] = c) - 1

RECURSIVE RadixValue(_, _)
RadixValue(digits, acc) ==
    IF digits = <<>> THEN acc
    ELSE RadixValue(Tail(digits), acc * 16 + to_digit(Head(digits)))

DecDigits == <<"0", "1", "2", "3", "4", "5", "6", "7", "8", "9">>
is_digit(c) == \E i \in 1..10 : DecDigits[i] = c

RECURSIVE DecValue(_, _)
DecValue(digits, acc) ==
    IF digits = <<>> THEN acc
    ELSE DecValue(Tail(digits), acc * 10 + to_digit(Head(digits)))

\* Index of the first c in s, 0 when s has none.
Position(s, c) ==
    IF \E i \in 1..Len(s) : s[i] = c
    THEN CHOOSE i \in 1..Len(s) :
             s[i] = c /\ \A j \in 1..(i - 1) : s[j] # c
    ELSE 0

(***************************************************************************)
(* The reader's unescape (BytesText::unescape and                          *)
(* Attribute::decode_and_unescape_value): every &name; is replaced by the  *)
(* character it names.  The predefined entities and the numeric character  *)
(* references are known; an unknown name, a reference to no character and  *)
(* an '&' that no ';' closes are errors.                                   *)
(***************************************************************************)
\* parse_component configures the reader with Reader's own methods
\* expand_empty_elements, check_end_names and trim_text
\* (component_tree.rs:30-33) and hands the reader itself to
\* decode_and_unescape_value (line 51): the program builds against the
\* quick-xml releases that have these, 0.31 at the latest, and the library
\* steps below are those releases'.  There a numeric reference has at most
\* 6 hexadecimal or 7 decimal digits (TooLongHexadecimal, TooLongDecimal),
\* leading zeros counted.
parse_hexadecimal(d) ==
    IF Len(d) > 6 \/ \E i \in 1..Len(d) : ~IsHexDigit(d[i])
    THEN [err |-> TRUE, code |-> 0]
    ELSE [err |-> FALSE, code |-> RadixValue(d, 0)]
parse_decimal(d) ==
    IF Len(d) > 7 \/ \E i \in 1..Len(d) : ~is_digit(d[i])
    THEN [err |-> TRUE, code |-> 0]
    ELSE [err |-> FALSE, code |-> DecValue(d, 0)]

\* &#...; : code 0, a surrogate and a code past U+10FFFF name no character.
parse_number(d) ==
    LET p == IF d # <<>> /\ Head(d) = "x"
             THEN parse_hexadecimal(Tail(d))
             ELSE parse_decimal(d)
    IN  IF p.err \/ p.code = 0 \/ p.code > 1114111 \/ p.code \in 55296..57343
        THEN [err |-> TRUE, char |-> ""]
        ELSE [err |-> FALSE, char |-> CodeChar(p.code)]

\* The predefined entities; "" for any other name.
resolve_predefined_entity(name) ==
    CASE name = <<"l", "t">> -> "<"
      [] name = <<"g", "t">> -> ">"
      [] name = <<"a", "m", "p">> -> "&"
      [] name = <<"a", "p", "o", "s">> -> "'"
      [] name = <<"q", "u", "o", "t">> -> "\""
      [] OTHER -> ""

RECURSIVE unescape(_)
unescape(raw) ==
    LET amp == Position(raw, "&") IN
    IF amp = 0 THEN [err |-> FALSE, value |-> raw]
    ELSE LET after == SubSeq(raw, amp + 1, Len(raw))
             semi == Position(after, ";")
         IN  IF semi = 0 THEN [err |-> TRUE, value |-> <<>>]
             ELSE LET name == SubSeq(after, 1, semi - 1)
                      known == resolve_predefined_entity(name)
                      ch == IF name # <<>> /\ Head(name) = "#"
                            THEN parse_number(Tail(name))
                            ELSE [err |-> known = "", char |-> known]
                      rest == unescape(SubSeq(after, semi + 1, Len(after)))
                  IN  IF ch.err \/ rest.err
                      THEN [err |-> TRUE, value |-> <<>>]
                      ELSE [err |-> FALSE,
                            value |-> SubSeq(raw, 1, amp - 1) \o <<ch.char>>
                                          \o rest.value]

(***************************************************************************)
(* Markup.  The reader cuts the text of a file into tokens; every token    *)
(* has the same four fields:                                               *)
(*   t     "start" | "end" | "empty" | "text" | "other" | "bad"            *)
(*   n     the element name as written, prefix included (start, end,       *)
(*         empty)                                                          *)
(*   attrs the attributes as written in the tag, a sequence of             *)
(*         <<key, value, error>>: the key as written, the value not yet    *)
(*         unescaped, and the error the attribute iterator reports for     *)
(*         the item ("" for none) (start, empty)                           *)
(*   text  the characters of a text run, trimmed and not yet unescaped     *)
(* "other" is a comment, a CDATA section, a document type or a processing  *)
(* instruction; "bad" is malformed markup (for example an unterminated     *)
(* tag), which the reader reports as an error.                             *)
(***************************************************************************)
Tok(t, n, attrs) == [t |-> t, n |-> n, attrs |-> attrs, text |-> <<>>]
StartTag(n, attrs) == Tok("start", n, attrs)
EndTag(n) == Tok("end", n, <<>>)
EmptyTag(n, attrs) == Tok("empty", n, attrs)
TextRun(s) == [Tok("text", <<>>, <<>>) EXCEPT !.text = s]
OtherMarkup == Tok("other", <<>>, <<>>)
BadMarkup == Tok("bad", <<>>, <<>>)
Attr(key, value, error) == <<key, value, error>>

Last(s) == s[Len(s)]
Front(s) == SubSeq(s, 1, Len(s) - 1)

\* The reader's is_whitespace(b), and u8::is_ascii_whitespace, which has
\* the form feed as well.
ReaderSpace == {" ", "\t", "\r", "\n"}
AsciiSpace == {" ", "\t", "\n", "\f", "\r"}

\* The first index from i on at which s holds a character of C, or a
\* character not of C; 0 when there is none.
IndexIn(s, i, C) ==
    IF \E j \in i..Len(s) : s[j] \in C
    THEN CHOOSE j \in i..Len(s) :
             s[j] \in C /\ \A k \in i..(j - 1) : s[k] \notin C
    ELSE 0
IndexNotIn(s, i, C) ==
    IF \E j \in i..Len(s) : s[j] \notin C
    THEN CHOOSE j \in i..Len(s) :
             s[j] \notin C /\ \A k \in i..(j - 1) : s[k] \in C
    ELSE 0
\* The last index at which s holds a character not of C; 0 for none.
LastIndexNotIn(s, C) ==
    IF \E j \in 1..Len(s) : s[j] \notin C
    THEN CHOOSE j \in 1..Len(s) :
             s[j] \notin C /\ \A k \in (j + 1)..Len(s) : s[k] \in C
    ELSE 0

to_ascii_uppercase(c) ==
    IF \E i \in 66..91 : Ascii[i] = c
    THEN Ascii[(CHOOSE i \in 66..91 : Ascii[i] = c) - 32]
    ELSE c
\* string[..prefix.len()].eq_ignore_ascii_case(prefix): the closure of
\* emit_bang, which tests both the CDATA and the DOCTYPE prefix with it.
uncased_starts_with(s, p) ==
    /\ Len(s) >= Len(p)
    /\ \A i \in 1..Len(p) : to_ascii_uppercase(s[i]) = p[i]

(***************************************************************************)
(* e.html_attributes(): the iterator over the attributes written after a   *)
(* tag's name (IterState::next).  A key ends at '=' or at whitespace; a    *)
(* key without '=' is an attribute with an empty value; a value is quoted  *)
(* by ' or by ", or unquoted and ends at whitespace.  A key, as written,   *)
(* that an earlier attribute of the tag carries is an error item           *)
(* (Duplicated); after one that an '=' follows, the iterator goes on at    *)
(* the first whitespace from that '=' on.  An '=' that nothing follows     *)
(* (ExpectedValue) and a quote that is never closed (ExpectedQuote) are    *)
(* error items that end the iteration.  `keys` are the keys read so far.   *)
(***************************************************************************)
\* check_for_duplicates: the error of a key, "" for none.
check_for_duplicates(keys, key) ==
    IF key \in keys THEN "Duplicated" ELSE ""

RECURSIVE AttributesFrom(_, _, _)
\* The value read from src[v] on, v following the '='.
AttributeValue(src, key, v, keys) ==
    LET w == IndexNotIn(src, v, ReaderSpace) IN
    IF w = 0 THEN <<Attr(key, <<>>, "ExpectedValue")>>
    ELSE IF src[w] \in {"\"", "'"}
    THEN LET c == IndexIn(src, w + 1, {src[w]}) IN
         IF c = 0 THEN <<Attr(key, <<>>, "ExpectedQuote")>>
         ELSE <<Attr(key, SubSeq(src, w + 1, c - 1), "")>>
                  \o AttributesFrom(src, c + 1, keys)
    ELSE LET u == IndexIn(src, w, ReaderSpace) IN
         IF u = 0 THEN <<Attr(key, SubSeq(src, w, Len(src)), "")>>
         ELSE <<Attr(key, SubSeq(src, w, u - 1), "")>>
                  \o AttributesFrom(src, u, keys)
\* State::SkipEqValue(offset), offset being the index of the '=': recover
\* finds the '=' itself as the first character that is no whitespace and
\* skips to the next whitespace.
skip_eq_value(src, offset) == IndexIn(src, offset, ReaderSpace)
\* A key that an '=' at src[eq] follows.
KeyWithValue(src, key, eq, keys) ==
    IF check_for_duplicates(keys, key) # ""
    THEN <<Attr(key, <<>>, "Duplicated")>>
             \o (IF skip_eq_value(src, eq) = 0 THEN <<>>
                 ELSE AttributesFrom(src, skip_eq_value(src, eq), keys))
    ELSE AttributeValue(src, key, eq + 1, keys \cup {key})
\* key_only: a key that no '=' follows.
KeyOnly(key, keys) == Attr(key, <<>>, check_for_duplicates(keys, key))
AttributesFrom(src, i, keys) ==
    LET j == IndexNotIn(src, i, ReaderSpace)
        e == IndexIn(src, j + 1, ReaderSpace \cup {"="})
        k == IndexNotIn(src, e, ReaderSpace)
        key == SubSeq(src, j, IF e = 0 THEN Len(src) ELSE e - 1)
    IN  IF j = 0 THEN <<>>
        ELSE IF e = 0 THEN <<KeyOnly(key, keys)>>
        ELSE IF src[e] = "=" THEN KeyWithValue(src, key, e, keys)
        ELSE IF k = 0 THEN <<KeyOnly(key, keys)>>
        ELSE IF src[k] = "=" THEN KeyWithValue(src, key, k, keys)
        ELSE <<KeyOnly(key, keys)>>
                 \o AttributesFrom(src, k, keys \cup {key})
Attributes(src) == AttributesFrom(src, 1, {})

(***************************************************************************)
(* The reader's scanner (read_event_into on Reader::from_str), with        *)
(* trim_text(true).  Between tags it skips whitespace and yields the text  *)
(* up to the next '<' without its trailing whitespace; after a '<' it      *)
(* reads a comment, CDATA section or document type ("<!"), an end tag      *)
(* ("</"), a processing instruction ("<?") or a start tag up to the '>'    *)
(* that closes it.  The result is the sequence of tokens of the text; a    *)
(* "bad" token ends it.                                                    *)
(***************************************************************************)
\* emit_start: the name ends at the first whitespace; a content that ends
\* with '/' is a self-closing tag.
emit_start(content) ==
    LET len == Len(content)
        ws == IndexIn(content, 1, ReaderSpace)
        name_end == IF ws = 0 THEN len ELSE ws - 1
        name_len == IF name_end < len THEN name_end ELSE len - 1
    IN  IF len > 0 /\ content[len] = "/"
        THEN EmptyTag(SubSeq(content, 1, name_len),
                      Attributes(SubSeq(content, name_len + 1, len - 1)))
        ELSE StartTag(SubSeq(content, 1, name_end),
                      Attributes(SubSeq(content, name_end + 1, len)))

\* emit_end: the name of an end tag, without trailing whitespace
\* (rposition(|&b| !b.is_ascii_whitespace())).
emit_end(content) ==
    LET last == LastIndexNotIn(content, AsciiSpace) IN
    EndTag(IF last = 0 THEN content ELSE SubSeq(content, 1, last))

\* read_element: the index of the '>' that closes the tag read from i on,
\* a '>' inside a quoted value not counting; 0 when none closes it.
RECURSIVE read_element(_, _, _)
read_element(s, i, quote) ==
    LET j == IndexIn(s, i, IF quote = "" THEN {">", "'", "\""} ELSE {quote})
    IN  IF j = 0 THEN 0
        ELSE IF quote # "" THEN read_element(s, j + 1, "")
        ELSE IF s[j] = ">" THEN j
        ELSE read_element(s, j + 1, s[j])

\* The '>' that closes the document type read from i on: one not inside
\* a nested '<' .. '>'.
RECURSIVE DocTypeEnd(_, _, _)
DocTypeEnd(s, i, balance) ==
    LET j == IndexIn(s, i, {"<", ">"}) IN
    IF j = 0 THEN 0
    ELSE IF s[j] = "<" THEN DocTypeEnd(s, j + 1, balance + 1)
    ELSE IF balance = 0 THEN j
    ELSE DocTypeEnd(s, j + 1, balance - 1)

\* read_bang_element, s[i] being the '!': the index of the closing '>' of
\* a well-formed comment, CDATA section or document type, else 0.
CDATA_prefix == <<"!", "[", "C", "D", "A", "T", "A", "[">>
DOCTYPE_prefix == <<"!", "D", "O", "C", "T", "Y", "P", "E">>
read_bang_element(s, i) ==
    LET kind == IF i < Len(s) THEN s[i + 1] ELSE ""
        ends(a, b) ==
            {j \in (i + 2)..Len(s) :
                 s[j] = ">" /\ s[j - 2] = a /\ s[j - 1] = b}
        first(S) == IF S = {} THEN 0
                    ELSE CHOOSE j \in S : \A k \in S : j <= k
        comment == first({j \in ends("-", "-") : j - i > 4})
        cdata == first(ends("]", "]"))
        doctype == DocTypeEnd(s, i, 0)
        content(j) == SubSeq(s, i, j - 1)
    IN  CASE kind = "-" ->
                 IF comment # 0 /\ i + 2 <= Len(s) /\ s[i + 2] = "-"
                 THEN comment ELSE 0
          [] kind = "[" ->
                 IF cdata # 0 /\ uncased_starts_with(content(cdata),
                                                     CDATA_prefix)
                 THEN cdata ELSE 0
          [] kind \in {"D", "d"} ->
                 IF /\ doctype # 0
                    /\ uncased_starts_with(content(doctype), DOCTYPE_prefix)
                    /\ IndexNotIn(content(doctype), 9, ReaderSpace) # 0
                 THEN doctype ELSE 0
          [] OTHER -> 0

RECURSIVE read_until_open(_, _)
RECURSIVE read_until_close(_, _)
\* After a '<', s[i] being the character that follows it.  A processing
\* instruction is read up to the first '>' (read_bytes_until) and is
\* well-formed when that '>' follows a '?' and more than two characters
\* (emit_question_mark).
read_until_close(s, i) ==
    IF i > Len(s) THEN <<BadMarkup>>
    ELSE CASE s[i] = "!" ->
                  LET gt == read_bang_element(s, i) IN
                  IF gt = 0 THEN <<BadMarkup>>
                  ELSE <<OtherMarkup>> \o read_until_open(s, gt + 1)
           [] s[i] = "/" ->
                  LET gt == IndexIn(s, i, {">"}) IN
                  IF gt = 0 THEN <<BadMarkup>>
                  ELSE <<emit_end(SubSeq(s, i + 1, gt - 1))>>
                           \o read_until_open(s, gt + 1)
           [] s[i] = "?" ->
                  LET gt == IndexIn(s, i, {">"}) IN
                  IF gt = 0 \/ gt - i <= 2 \/ s[gt - 1] # "?"
                  THEN <<BadMarkup>>
                  ELSE <<OtherMarkup>> \o read_until_open(s, gt + 1)
           [] OTHER ->
                  LET gt == read_element(s, i, "") IN
                  IF gt = 0 THEN <<BadMarkup>>
                  ELSE <<emit_start(SubSeq(s, i, gt - 1))>>
                           \o read_until_open(s, gt + 1)
\* Between tags, from s[i] on.
read_until_open(s, i) ==
    LET j == IndexNotIn(s, i, ReaderSpace)
        lt == IndexIn(s, j, {"<"})
        bytes == SubSeq(s, j, IF lt = 0 THEN Len(s) ELSE lt - 1)
        text == TextRun(SubSeq(bytes, 1, LastIndexNotIn(bytes, ReaderSpace)))
    IN  IF j = 0 THEN <<>>
        ELSE IF s[j] = "<" THEN read_until_close(s, j + 1)
        ELSE IF lt = 0 THEN <<text>>
        ELSE <<text>> \o read_until_close(s, lt + 1)

\* The tokens of a text.
\* A byte order mark at the start of the text is removed before the first
\* event is read.
BOM == "U+FEFF"
Markup(xml) ==
    read_until_open(xml, IF xml # <<>> /\ Head(xml) = BOM THEN 2 ELSE 1)

(***************************************************************************)
(* The tag stream reader as parse_component configures it:                 *)
(* expand_empty_elements(true) turns a self-closing tag into a start event *)
(* followed by an end event; check_end_names(true) makes an end tag that   *)
(* does not close the innermost open start tag an error.  The result is    *)
(* the sequence of events read_event_into yields up to Eof; an error is    *)
(* the event "err" and ends the sequence (parse_component stops there).    *)
(* `open` is the reader's stack of open element names, as written.         *)
(***************************************************************************)
RECURSIVE read_events_unchecked(_, _)
read_events_unchecked(toks, open) ==
    IF toks = <<>> THEN <<>>
    ELSE LET k == Head(toks) IN
         CASE k.t = "empty" ->
                  <<StartTag(k.n, k.attrs), EndTag(k.n)>>
                      \o read_events_unchecked(Tail(toks), open)
           [] k.t \in {"start", "end", "text", "other"} ->
                  <<k>> \o read_events_unchecked(Tail(toks), open)
           [] OTHER -> <<Tok("err", <<>>, <<>>)>>
RECURSIVE read_events_unexpanded(_, _)
read_events_unexpanded(toks, open) ==
    IF toks = <<>> THEN <<>>
    ELSE LET k == Head(toks) IN
         CASE k.t = "start" ->
                  <<k>> \o read_events_unexpanded(Tail(toks), Append(open, k.n))
           [] k.t = "end" ->
                  IF open # <<>> /\ Last(open) = k.n
                  THEN <<k>> \o read_events_unexpanded(Tail(toks), Front(open))
                  ELSE <<Tok("err", <<>>, <<>>)>>
           [] k.t \in {"empty", "text", "other"} ->
                  <<k>> \o read_events_unexpanded(Tail(toks), open)
           [] OTHER -> <<Tok("err", <<>>, <<>>)>>
RECURSIVE read_events(_, _)
read_events(toks, open) ==
    IF toks = <<>> THEN <<>>
    ELSE LET k == Head(toks) IN
         CASE k.t = "start" ->
                  <<k>> \o read_events(Tail(toks), Append(open, k.n))
           [] k.t = "empty" ->
                  <<StartTag(k.n, k.attrs), EndTag(k.n)>>
                      \o read_events(Tail(toks), open)
           [] k.t = "end" ->
                  IF open # <<>> /\ Last(open) = k.n
                  THEN <<k>> \o read_events(Tail(toks), Front(open))
                  ELSE <<Tok("err", <<>>, <<>>)>>
           [] k.t \in {"text", "other"} ->
                  <<k>> \o read_events(Tail(toks), open)
           [] OTHER -> <<Tok("err", <<>>, <<>>)>>

\* The events of a text.
Reader(xml) == read_events(Markup(xml), <<>>)

(***************************************************************************)
(* Component and parse_component.                                          *)
(* text is an Option: <<>> is None, <<s>> is Some(s).                      *)
(***************************************************************************)
Component(elem, text, attributes, children) ==
    [elem |-> elem, text |-> text, attributes |-> attributes,
     children |-> children]

\* "error".to_string()
error_text == <<"e", "r", "r", "o", "r">>

\* QName::local_name(): the name after its first ':', the whole name when
\* it has none.
local_name(name) ==
    LET colon == Position(name, ":") IN
    IF colon = 0 THEN name ELSE SubSeq(name, colon + 1, Len(name))

\* An Err item of e.html_attributes().
AttributeErr(attrs, i) == attrs[i][3] # ""

\* The closure of .map(): the pair kept for the i-th attribute.  An Err
\* item becomes ("error", "error"); an Ok item gives the local name of its
\* key and its unescaped value.
AttributePair(attrs, i) ==
    IF AttributeErr(attrs, i) THEN <<error_text, error_text>>
    ELSE <<local_name(attrs[i][1]), unescape(attrs[i][2]).value>>

\* a.decode_and_unescape_value(&reader).unwrap() panics on an Ok item.
AttributePanics(attrs) ==
    \E i \in 1..Len(attrs) :
        ~AttributeErr(attrs, i) /\ unescape(attrs[i][2]).err

\* .collect::<Vec<(String, String)>>()
html_attributes(attrs) ==
    IF attrs = <<>> THEN <<>>
    ELSE [i \in 1..Len(attrs) |-> AttributePair(attrs, i)]

\* The node built for a start or empty event.
NewComponent(e) ==
    Component(local_name(e.n), <<>>, html_attributes(e.attrs), <<>>)

\* The value returned when the stack is empty at the end of the stream.
ErrorComponentNoText == Component(error_text, <<>>, <<>>, <<>>)
ErrorComponent == Component(error_text, <<error_text>>, <<>>, <<>>)

\* No component: the value of a variable that holds none yet.
NoComponent == Component(<<>>, <<>>, <<>>, <<>>)

\* parent.children.push(c), parent being stack.last_mut().
PushChildReplaces(stack, c) ==
    [stack EXCEPT ![Len(stack)].children = <<c>>]
PushChildFirst(stack, c) ==
    [stack EXCEPT ![Len(stack)].children = <<c>> \o @]
PushChild(stack, c) ==
    [stack EXCEPT ![Len(stack)].children = Append(@, c)]

\* The iteration for event e panics: the reader reported an error, or an
\* unwrap of the unescaped attribute value or text fails.
EventPanics(e) ==
    \/ e.t = "err"
    \/ e.t \in {"start", "empty"} /\ AttributePanics(e.attrs)
    \/ e.t = "text" /\ unescape(e.text).err

\* One iteration of the loop for an event that does not panic.
BuildStepKeepsText(stack, e) ==
    CASE e.t = "start" -> Append(stack, NewComponent(e))
      [] e.t = "empty" ->
             IF stack # <<>> THEN PushChild(stack, NewComponent(e)) ELSE stack
      [] e.t = "end" ->
             IF Len(stack) > 1
             THEN PushChild(Front(stack), Last(stack))
             ELSE stack
      [] e.t = "text" ->
             IF stack # <<>> /\ Last(stack).text = <<>>
             THEN [stack EXCEPT ![Len(stack)].text = <<unescape(e.text).value>>]
             ELSE stack
      [] OTHER -> stack
BuildStepPopsRoot(stack, e) ==
    CASE e.t = "start" -> Append(stack, NewComponent(e))
      [] e.t = "empty" ->
             IF stack # <<>> THEN PushChild(stack, NewComponent(e)) ELSE stack
      [] e.t = "end" ->
             IF Len(stack) > 1
             THEN PushChild(Front(stack), Last(stack))
             ELSE <<>>
      [] e.t = "text" ->
             IF stack # <<>>
             THEN [stack EXCEPT ![Len(stack)].text = <<unescape(e.text).value>>]
             ELSE stack
      [] OTHER -> stack
BuildStep(stack, e) ==
    CASE e.t = "start" -> Append(stack, NewComponent(e))
      [] e.t = "empty" ->
             IF stack # <<>> THEN PushChild(stack, NewComponent(e)) ELSE stack
      [] e.t = "end" ->
             IF Len(stack) > 1
             THEN PushChild(Front(stack), Last(stack))
             ELSE stack
      [] e.t = "text" ->
             IF stack # <<>>
             THEN [stack EXCEPT ![Len(stack)].text = <<unescape(e.text).value>>]
             ELSE stack
      [] OTHER -> stack

\* The loop: the stack at Eof, or a panic at the first event that panics.
RECURSIVE BuildLoop(_, _)
BuildLoop(evs, stack) ==
    IF evs = <<>> THEN [panic |-> FALSE, stack |-> stack]
    ELSE IF EventPanics(Head(evs)) THEN [panic |-> TRUE, stack |-> stack]
    ELSE BuildLoop(Tail(evs), BuildStep(stack, Head(evs)))

\* parse_component: [panic |-> TRUE] or the component returned.
ComponentOf(events) ==
    LET r == BuildLoop(events, <<>>) IN
    IF r.panic THEN [panic |-> TRUE, value |-> ErrorComponent]
    ELSE [panic |-> FALSE,
          value |-> IF r.stack = <<>> THEN ErrorComponent ELSE Last(r.stack)]
parse_component(xml) == ComponentOf(Reader(xml))


(***************************************************************************)
(* File contents the environment may write to the source file: the bytes   *)
(* of a text.                                                              *)
(***************************************************************************)
\* <div>Comt\u00E9</div>, the accented letter being the bytes 10 and 11.
TextA == <<"C", "o", "m", "t", "U+00E9">>
DocA ==
    as_bytes(<<"<", "d", "i", "v", ">">> \o TextA
                 \o <<"<", "/", "d", "i", "v", ">">>)
\* <div><img/></div>
DocB ==
    as_bytes(<<"<", "d", "i", "v", ">", "<", "i", "m", "g", "/", ">", "<",
               "/", "d", "i", "v", ">">>)
\* <a><b></a>
DocMismatch ==
    as_bytes(<<"<", "a", ">", "<", "b", ">", "<", "/", "a", ">">>)
\* Colors that are no hex literal.
bg_malformed ==
    <<"b", "g", "-", "[", "z", "z", "0", "0", "0", "0", "]">>
\* <div class="bg-[zz0000]" bg="zz0000"/>
DocBadColor ==
    as_bytes(<<"<", "d", "i", "v", " ", "c", "l", "a", "s", "s", "=", "\"",
               "b", "g", "-", "[", "z", "z", "0", "0", "0", "0", "]", "\"",
               " ", "b", "g", "=", "\"", "z", "z", "0", "0", "0", "0", "\"",
               "/", ">">>)
FileContents == {DocA, DocB, DocMismatch, DocBadColor}
\* What the file holds when the program starts.
StartContents == {DocA, DocMismatch, DocBadColor}

(***************************************************************************)
(* Filesystem events (notify::Result<Event>).  "Error" is an Err(e) of the *)
(* watcher; the others are the EventKind of an Ok(event).                  *)
(*   id      serial number, in the order the events were raised            *)
(*   ver     version of the file content when the event was raised         *)
(*   during  id of the event whose reparse was running when the callback   *)
(*           put this event into the channel (0: none was running)         *)
(***************************************************************************)
EventKinds ==
    {"Create", "ModifyData", "ModifyMetadata", "Access", "Remove", "Error"}
FsEvent(id, kind, v) == [id |-> id, kind |-> kind, ver |-> v, during |-> 0]
NoEvent == FsEvent(0, "Access", 0)

VARIABLES
    prog,            \* "root" | "configurator": which binary runs
    exists,          \* the source file can be opened
    file,            \* content of the source file, its bytes
    ver,             \* number of content writes so far
    nev,             \* number of filesystem changes made so far
    pending,         \* events raised, not yet handed to the callback
    chan,            \* messages queued in the mpsc channel (tx -> rx)
    parked,          \* the sender is parked (channel over its buffer)
    wpc,             \* watcher thread: "idle" | "blocked" (inside callback)
    handed,          \* number of events the callback was called with
    pc,              \* main-thread task: "start" | "startread" |
                     \*   "spawned" | "await" | "read" | "parse" |
                     \*   "panicked"
    cur,             \* the event being handled
    xml,             \* the String the file is read into, its bytes
    xmlver,          \* version of the file content when it was opened
    fd,              \* the open file that is being read, and the capacity
                     \*   of the String
    root_component,  \* the published tree
    lock,            \* root's Mutex: "free" | "held" | "poisoned"
    inflight,        \* reparses started and not finished
    rcvd,            \* events the consumer loop received, in order
    started,         \* ids of the events that started a reparse, in order
    published,       \* the reparse under way has replaced the tree
    reqBefore,       \* re-render requests of this event before publishing
    reqAfter,        \* re-render requests of this event after publishing
    seen             \* the tree a render has read since the task last
                     \*   ran; none when no render has run since

(***************************************************************************)
(* State of one run of parse_component, for the properties of the builder. *)
(***************************************************************************)
VARIABLES
    input,           \* the markup given to parse_component
    markup,          \* its tags and runs, as the reader finds them
    evs,             \* events the reader has still to yield
    stack,           \* the stack of components under construction
    bpc,             \* "idle" | "loop" | "done" | "panicked"
    result           \* the component returned, once bpc = "done"

buildVars == <<input, markup, evs, stack, bpc, result>>

VARIABLES
    class_list,      \* the class names the class attribute was written from
    attributes,      \* the attributes given to set_attributes
    classes,         \* class names the loop has still to visit
    element,         \* the element being styled
    spc,             \* "idle" | "find" | "loop" | "done" | "panicked"
    hex,             \* the literal given to hex_to_rgb
    trimmed,         \* the literal without its leading '#'
    hpc,             \* "idle" | "trim" | "parse" | "done" | "panicked"
    color            \* the color returned, once hpc = "done"

styleVars == <<class_list, attributes, classes, element, spc>>
hexVars == <<hex, trimmed, hpc, color>>

VARIABLES
    component,       \* the component given to render_component
    rendered,        \* the element returned, once rpc = "done"
    rpc              \* "idle" | "call" | "done" | "panicked"

renderVars == <<component, rendered, rpc>>
pureVars == <<buildVars, styleVars, hexVars, renderVars>>

vars == <<prog, exists, file, ver, nev, pending, chan, parked, wpc, handed,
          pc, cur,
          xml, xmlver, fd, root_component, lock, inflight, rcvd, started,
          published, reqBefore, reqAfter, seen, pureVars>>

reloadVars == <<prog, exists, file, ver, nev, pending, chan, parked, wpc,
                handed, pc, cur, xml, xmlver, fd, root_component, lock,
                inflight, rcvd, started, published, reqBefore, reqAfter,
                seen>>

envVars == <<exists, file, ver, nev, pending>>
chanVars == <<chan, parked, wpc, handed>>
taskVars == <<pc, cur, xml, xmlver, fd, root_component, lock, inflight,
              rcvd, started, published, reqBefore, reqAfter>>

\* channel(1): the buffer size given to futures::channel::mpsc::channel.
ChannelBuffer == 1

Alive == pc # "panicked"
\* watcher.watch(..., RecursiveMode::Recursive) has been called.
Watching == pc \in {"await", "read", "parse"}

\* No run of parse_component is under observation.
BuildIdle ==
    /\ input = <<>>
    /\ markup = <<>>
    /\ evs = <<>>
    /\ stack = <<>>
    /\ bpc = "idle"
    /\ result = NoComponent

\* The styles a fresh element carries: none.
StyleSlots ==
    {"display", "height", "width", "background", "text_color",
     "top_left", "top_right", "bottom_right", "bottom_left"}
NewElement == [ops |-> <<>>, style |-> [k \in StyleSlots |-> <<>>]]

\* No color: the value of a variable that holds none yet.
NoColor == [value |-> 0, r |-> 0, g |-> 0, b |-> 0]

StyleIdle ==
    /\ class_list = <<>>
    /\ attributes = <<>>
    /\ classes = <<>>
    /\ element = NewElement
    /\ spc = "idle"

HexIdle ==
    /\ hex = <<>>
    /\ trimmed = <<>>
    /\ hpc = "idle"
    /\ color = NoColor

\* What render_component returns: a Div, an Img or an Svg; a text child of
\* a Div is carried as kind "Text".
Rendered(kind, source, text, children, el) ==
    [kind |-> kind, source |-> source, text |-> text,
     children |-> children, el |-> el]
NoRendered == Rendered("", <<>>, <<>>, <<>>, NewElement)

RenderIdle ==
    /\ component = NoComponent
    /\ rendered = NoRendered
    /\ rpc = "idle"

PureIdle == BuildIdle /\ StyleIdle /\ HexIdle /\ RenderIdle

(***************************************************************************)
(* File::open(..).unwrap().read_to_string(&mut xml).unwrap(): the file is  *)
(* opened, its size is taken and reserved in the empty String, and then    *)
(* read() is called until it returns no bytes.  A call reads into the      *)
(* spare capacity of the String; when the String is full at the capacity   *)
(* first reserved, the call probes with a buffer of PROBE_SIZE bytes; when *)
(* it is full later, PROBE_SIZE bytes more are reserved.  No call reads    *)
(* more than max_read_size bytes.  The file can change between the calls.  *)
(* When read() has returned no bytes, the bytes read must be UTF-8: the    *)
(* unwrap panics on those that are not.                                    *)
(*   open      a file is open                                              *)
(*   detached  the file was removed after it was opened; the open file     *)
(*             still holds the content it had then, frozen                 *)
(*   start_cap the capacity reserved from the size of the file             *)
(*   cap       the capacity of the String                                  *)
(*   max_read_size  the most bytes one call reads                          *)
(***************************************************************************)
PROBE_SIZE == 32
DEFAULT_BUF_SIZE == 8192
\* usize::checked_next_multiple_of
next_multiple_of(n, m) == ((n + m - 1) \div m) * m
\* cmp::max and cmp::min
max(a, b) == IF a >= b THEN a ELSE b
min(a, b) == IF a <= b THEN a ELSE b

\* Vec::reserve(additional): the capacity of a vector of len bytes after it.
reserve(cap, len, additional) ==
    IF additional > cap - len
    THEN max(8, max(2 * cap, len + additional))
    ELSE cap

NoFd == [open |-> FALSE, detached |-> FALSE, frozen |-> <<>>,
         start_cap |-> 0, cap |-> 0, max_read_size |-> 0]
\* The file just opened: the String reserves the size of the file, and
\* max_read_size is size + 1024 rounded up to a multiple of DEFAULT_BUF_SIZE.
OpenFd(size) ==
    [open |-> TRUE, detached |-> FALSE, frozen |-> <<>>,
     start_cap |-> reserve(0, 0, size), cap |-> reserve(0, 0, size),
     max_read_size |-> next_multiple_of(size + 1024, DEFAULT_BUF_SIZE)]

\* The program p starts with the source file readable or not, holding f.
ReloadStart(p, x, f) ==
    /\ prog = p
    /\ exists = x
    /\ file = f
    /\ ver = 0
    /\ nev = 0
    /\ pending = <<>>
    /\ chan = <<>>
    /\ parked = FALSE
    /\ wpc = "idle"
    /\ handed = 0
    /\ pc = "start"
    /\ cur = NoEvent
    /\ xml = <<>>
    /\ xmlver = 0
    /\ fd = NoFd
    /\ root_component = NoComponent         \* no tree before Startup
    /\ lock = "free"
    /\ inflight = 0
    /\ rcvd = <<>>
    /\ started = <<>>
    /\ published = FALSE
    /\ reqBefore = 0
    /\ reqAfter = 0
    /\ seen = NoComponent                   \* nothing rendered yet

Init ==
    /\ \E p \in {"root", "configurator"}, x \in BOOLEAN, f \in StartContents :
           ReloadStart(p, x, f)
    /\ PureIdle

(***************************************************************************)
(* The environment: changes to the watched directory.  Each change raises  *)
(* one event once the watch is registered.                                 *)
(***************************************************************************)
Raise(kind, v) ==
    /\ nev < MaxEvents
    /\ Alive
    /\ pc # "start"
    /\ nev' = nev + 1
    /\ pending' = IF Watching
                  THEN Append(pending, FsEvent(nev + 1, kind, v))
                  ELSE pending

\* A save in place is two changes: the file is opened with truncation,
\* which leaves it empty, and the new content is written.  Each raises a
\* modify event, and a read can fall between the two.  A write changes
\* the content: the same content is written again after a truncation.
TruncateData ==
    /\ exists
    /\ file # <<>>
    /\ file' = <<>>
    /\ ver' = ver + 1
    /\ Raise("ModifyData", ver + 1)
    /\ UNCHANGED <<pureVars, seen, prog, exists, chanVars, taskVars>>

WriteData ==
    \E c \in FileContents \ {file} :
        /\ exists
        /\ file' = c
        /\ ver' = ver + 1
        /\ Raise("ModifyData", ver + 1)
        /\ UNCHANGED <<pureVars, seen, prog, exists, chanVars, taskVars>>

CreateFile ==
    \E c \in FileContents :
        /\ ~exists
        /\ exists' = TRUE
        /\ file' = c
        /\ ver' = ver + 1
        /\ Raise("Create", ver + 1)
        /\ UNCHANGED <<pureVars, seen, prog, chanVars, taskVars>>

\* Removing the file leaves an open file on the removed content.
RemoveFile ==
    /\ exists
    /\ exists' = FALSE
    /\ fd' = IF fd.open /\ ~fd.detached
             THEN [fd EXCEPT !.detached = TRUE, !.frozen = file]
             ELSE fd
    /\ Raise("Remove", ver)
    /\ UNCHANGED <<pureVars, seen, prog, file, ver, chanVars, pc, cur, xml,
                   xmlver, root_component, lock, inflight, rcvd, started,
                   published, reqBefore, reqAfter>>

Touch ==
    \E kind \in {"ModifyMetadata", "Access"} :
        /\ exists
        /\ Raise(kind, ver)
        /\ UNCHANGED <<pureVars, seen, prog, exists, file, ver, chanVars, taskVars>>

WatcherError ==
    /\ Watching
    /\ Raise("Error", ver)
    /\ UNCHANGED <<pureVars, seen, prog, exists, file, ver, chanVars, taskVars>>

(***************************************************************************)
(* async_watcher: the watcher thread calls the callback for one event at a *)
(* time; the callback runs tx.send(res).await to completion (block_on).    *)
(* futures' bounded channel: send waits until the sender is not parked,    *)
(* pushes the message, parks the sender when the number of queued messages *)
(* exceeds the buffer, and then (the flush of send) waits until the        *)
(* receiver has unparked it.  The receiver unparks the sender each time it *)
(* takes a message.                                                        *)
(***************************************************************************)
\* The sender parks itself after a push that leaves n messages queued.
ParkSelfNever(n) == FALSE
ParkSelf(n) == n > ChannelBuffer

\* The queue after the callback's push of e.
QueuePush(q, e) == Append(q, e)

\* The callback is entered with the oldest pending event and sends it.
CallbackSend ==
    /\ Alive
    /\ wpc = "idle"
    /\ ~parked
    /\ pending # <<>>
    /\ LET e == [Head(pending) EXCEPT
                     !.during = IF inflight > 0 THEN cur.id ELSE 0]
           q == QueuePush(chan, e)
       IN /\ chan' = q
          /\ parked' = ParkSelf(Len(q))
          /\ wpc' = IF ParkSelf(Len(q)) THEN "blocked" ELSE "idle"
    /\ pending' = Tail(pending)
    /\ handed' = handed + 1
    /\ UNCHANGED <<pureVars, seen, prog, exists, file, ver, nev, taskVars>>

\* The blocked send completes once the receiver has unparked the sender.
CallbackReturn ==
    /\ Alive
    /\ wpc = "blocked"
    /\ ~parked
    /\ wpc' = "idle"
    /\ UNCHANGED <<pureVars, seen, prog, envVars, chan, parked, handed, taskVars>>

(***************************************************************************)
(* Startup, common to both programs: the source file is read and parsed    *)
(* synchronously, then the watch task is spawned; the task creates the     *)
(* watcher and registers the recursive watch before its loop.              *)
(***************************************************************************)
\* The content the open file holds now.
FdContent == IF fd.detached THEN fd.frozen ELSE file
\* The next read() is the probe of a String that is full at the capacity
\* first reserved.
Probe == Len(xml) = fd.cap /\ fd.cap = fd.start_cap
\* The capacity when the next read() is made, and the size of its buffer.
Grown ==
    IF ~Probe /\ Len(xml) = fd.cap
    THEN reserve(fd.cap, Len(xml), PROBE_SIZE)
    ELSE fd.cap
BufferSize ==
    IF Probe THEN PROBE_SIZE ELSE min(Grown - Len(xml), fd.max_read_size)
\* The bytes the next read() returns: those at the position of the file.
Got ==
    SubSeq(FdContent, Len(xml) + 1,
           min(Len(xml) + BufferSize, Len(FdContent)))

\* File::open(..).unwrap(), and the size of the file is reserved.
OpenFile(next) ==
    IF exists
    THEN /\ fd' = OpenFd(Len(file))
         /\ xml' = <<>>
         /\ xmlver' = ver
         /\ pc' = next
    ELSE /\ pc' = "panicked"
         /\ UNCHANGED <<xml, xmlver, fd>>
\* A read() that returns bytes: they are appended to the String.
ReadBytes ==
    /\ fd.open
    /\ Got # <<>>
    /\ xml' = xml \o Got
    /\ fd' = [fd EXCEPT !.cap = IF Probe
                                THEN reserve(fd.cap, Len(xml), Len(Got))
                                ELSE Grown]
\* The read() that returns no bytes ends read_to_string; the file is
\* closed.
ReadEnd ==
    /\ fd.open
    /\ Got = <<>>
    /\ fd' = NoFd
\* read_to_string returns Err when the bytes read are no UTF-8, and the
\* unwrap panics; else xml is the text they encode.
ReadFails == from_utf8(xml).err
Text == from_utf8(xml).value

StartupOpen ==
    /\ pc = "start"
    /\ OpenFile("startread")
    /\ UNCHANGED <<pureVars, seen, prog, envVars, chanVars, cur,
                   root_component, lock, inflight, rcvd, started, published,
                   reqBefore, reqAfter>>
StartupRead ==
    /\ pc = "startread"
    /\ ReadBytes
    /\ UNCHANGED <<pureVars, seen, prog, envVars, chanVars, pc, cur, xmlver,
                   root_component, lock, inflight, rcvd, started, published,
                   reqBefore, reqAfter>>
\* The text read is parsed (HelloWorld::new) and the task is spawned.
StartupWithoutParse ==
    /\ pc = "startread"
    /\ ReadEnd
    /\ pc' = IF ReadFails THEN "panicked" ELSE "spawned"
    /\ UNCHANGED <<pureVars, seen, prog, envVars, chanVars, cur, xml, xmlver,
                   root_component, lock, inflight, rcvd, started, published,
                   reqBefore, reqAfter>>
Startup ==
    /\ pc = "startread"
    /\ ReadEnd
    /\ xml' = <<>>
    /\ IF ~ReadFails /\ ~parse_component(Text).panic
       THEN /\ root_component' = parse_component(Text).value
            /\ pc' = "spawned"
       ELSE /\ pc' = "panicked"
            /\ UNCHANGED root_component
    /\ UNCHANGED <<pureVars, seen, prog, envVars, chanVars, cur, xmlver,
                   lock, inflight, rcvd, started, published, reqBefore,
                   reqAfter>>

StartWatch ==
    /\ pc = "spawned"
    /\ pc' = "await"
    /\ seen' = NoComponent
    /\ UNCHANGED <<pureVars, prog, envVars, chanVars, cur, xml, xmlver,
                   fd, root_component, lock, inflight, rcvd, started,
                   published, reqBefore, reqAfter>>

(***************************************************************************)
(* The consumer loop: while let Some(res) = rx.next().await.               *)
(***************************************************************************)
\* The task is suspended at rx.next().await.
AwaitingOrBusy == pc \in {"await", "read", "parse"}
Awaiting == pc = "await"

\* rx.next() yields the oldest message and unparks the sender.
Take ==
    /\ chan # <<>>
    /\ chan' = Tail(chan)
    /\ parked' = FALSE
    /\ rcvd' = Append(rcvd, Head(chan))
    /\ cur' = Head(chan)
    /\ seen' = NoComponent
    /\ UNCHANGED <<pureVars, prog, envVars, wpc, handed>>

\* The match arm taken does the reparse; it starts with File::open.
BeginReparse(requests) ==
    /\ OpenFile("read")
    /\ inflight' = inflight + 1
    /\ started' = Append(started, Head(chan).id)
    /\ published' = FALSE
    /\ reqBefore' = requests
    /\ reqAfter' = 0

\* The other arms: _ => {} and Err(e) => println!.
NextIteration ==
    /\ UNCHANGED <<pc, xml, xmlver, fd, inflight, started, published,
                   reqBefore, reqAfter>>

\* The tree is replaced and one re-render is requested after it.
PublishInPlace(r) ==
    /\ root_component' = [root_component EXCEPT !.children = r.value.children]
    /\ published' = TRUE
    /\ reqAfter' = reqAfter + 1
Publish(r) ==
    /\ root_component' = r.value
    /\ published' = TRUE
    /\ reqAfter' = reqAfter + 1

(***************************************************************************)
(* root (src/src/main.rs): the loop reparses in place.                     *)
(***************************************************************************)
\* EventKind::Create(_) | EventKind::Modify(_)
RootQualifies(kind) == kind \in {"Create", "ModifyData", "ModifyMetadata"}

RootReceive ==
    /\ prog = "root"
    /\ Awaiting
    /\ Take
    /\ IF RootQualifies(Head(chan).kind)
       THEN BeginReparse(0)
       ELSE NextIteration
    /\ UNCHANGED <<root_component, lock>>

\* read_to_string: a read() that returns bytes.
RootReadBytes ==
    /\ prog = "root"
    /\ pc = "read"
    /\ ReadBytes
    /\ UNCHANGED <<pureVars, seen, prog, envVars, chanVars, pc, cur, xmlver,
                   root_component, lock, inflight, rcvd, started, published,
                   reqBefore, reqAfter>>
\* The last read() of read_to_string and its unwrap, then lock().unwrap().
RootRead ==
    /\ prog = "root"
    /\ pc = "read"
    /\ ReadEnd
    /\ IF ReadFails
       THEN /\ pc' = "panicked"
            /\ UNCHANGED lock
       ELSE /\ lock' = "held"
            /\ pc' = "parse"
    /\ UNCHANGED <<pureVars, seen, prog, envVars, chanVars, cur, xml, xmlver,
                   root_component, inflight, rcvd, started, published,
                   reqBefore, reqAfter>>

\* *root_component = parse_component(Text); cx.refresh(); the guard drops.
RootParseKeepsLock ==
    /\ prog = "root"
    /\ pc = "parse"
    /\ xml' = <<>>
    /\ LET r == parse_component(Text) IN
       IF r.panic
       THEN /\ pc' = "panicked"
            /\ lock' = "poisoned"
            /\ UNCHANGED <<root_component, published, reqAfter, inflight>>
       ELSE /\ Publish(r)
            /\ lock' = "held"
            /\ inflight' = inflight - 1
            /\ pc' = "await"
    /\ UNCHANGED <<pureVars, seen, prog, envVars, chanVars, cur, xmlver, fd,
                   rcvd, started, reqBefore>>
RootParse ==
    /\ prog = "root"
    /\ pc = "parse"
    /\ xml' = <<>>
    /\ LET r == parse_component(Text) IN
       IF r.panic
       THEN /\ pc' = "panicked"
            /\ lock' = "poisoned"
            /\ UNCHANGED <<root_component, published, reqAfter, inflight>>
       ELSE /\ Publish(r)
            /\ lock' = "free"
            /\ inflight' = inflight - 1
            /\ pc' = "await"
    /\ UNCHANGED <<pureVars, seen, prog, envVars, chanVars, cur, xmlver,
                   fd, rcvd, started, reqBefore>>

(***************************************************************************)
(* configurator (src/crates/configurator/src/hello.rs): the loop emits     *)
(* FileChangeEvent::DataChange and calls cx.notify(); the subscription on  *)
(* the view runs when the update's effects are flushed, and reparses.      *)
(***************************************************************************)
\* EventKind::Modify(ModifyKind::Data(_))
CfgQualifies(kind) == kind = "ModifyData"

CfgReceive ==
    /\ prog = "configurator"
    /\ Awaiting
    /\ Take
    /\ IF CfgQualifies(Head(chan).kind)
       THEN BeginReparse(1)
       ELSE NextIteration
    /\ UNCHANGED <<root_component, lock>>

\* HelloWorld::read_xml_file(): a read() of read_to_string that returns
\* bytes.
CfgSubscriberReadBytes ==
    /\ prog = "configurator"
    /\ pc = "read"
    /\ ReadBytes
    /\ UNCHANGED <<pureVars, seen, prog, envVars, chanVars, pc, cur, xmlver,
                   root_component, lock, inflight, rcvd, started, published,
                   reqBefore, reqAfter>>
\* The last read() of read_to_string, and its unwrap.
CfgSubscriberRead ==
    /\ prog = "configurator"
    /\ pc = "read"
    /\ ReadEnd
    /\ pc' = IF ReadFails THEN "panicked" ELSE "parse"
    /\ UNCHANGED <<pureVars, seen, prog, envVars, chanVars, cur, xml, xmlver,
                   root_component, lock, inflight, rcvd, started, published,
                   reqBefore, reqAfter>>

\* this.root_component = parse_component(..); cx.notify();
CfgSubscriberParse ==
    /\ prog = "configurator"
    /\ pc = "parse"
    /\ xml' = <<>>
    /\ LET r == parse_component(Text) IN
       IF r.panic
       THEN /\ pc' = "panicked"
            /\ UNCHANGED <<root_component, published, reqAfter, inflight>>
       ELSE /\ Publish(r)
            /\ inflight' = inflight - 1
            /\ pc' = "await"
    /\ UNCHANGED <<pureVars, seen, prog, envVars, chanVars, cur, xmlver,
                   fd, lock, rcvd, started, reqBefore>>

(***************************************************************************)
(* Properties of the reload coordinators.                                  *)
(***************************************************************************)
Range(f) == {f[i] : i \in DOMAIN f}

\* The trees parse_component is expected to return for the valid contents.
TreeA == Component(<<"d", "i", "v">>, <<TextA>>, <<>>, <<>>)
TreeB == Component(<<"d", "i", "v">>, <<>>, <<>>, <<Component(<<"i", "m", "g">>, <<>>, <<>>, <<>>)>>)
TreeBadColor ==
    Component(<<"d", "i", "v">>, <<>>,
              <<<<<<"c", "l", "a", "s", "s">>, <<"b", "g", "-", "[", "z", "z", "0", "0", "0", "0",
                             "]">>>>,
                <<<<"b", "g">>, <<"z", "z", "0", "0", "0", "0">>>>>>,
              <<>>)
\* What is read of a file caught between truncation and write: nothing,
\* for which parse_component returns the error placeholder.
TreeOfNothing ==
    Component(<<"e", "r", "r", "o", "r">>, <<<<"e", "r", "r", "o", "r">>>>, <<>>, <<>>)
ExpectedTree(doc) ==
    CASE doc = DocA -> TreeA
      [] doc = DocB -> TreeB
      [] doc = DocBadColor -> TreeBadColor
      [] OTHER -> TreeOfNothing

\* The reparse under way has read a content that cannot be parsed.
ParseFails == pc = "parse" /\ parse_component(Text).panic
\* The task takes a step.
TaskStep == pc' # pc

\* C1: when a reparse attempt fails, the published tree is the tree that
\* was published before the attempt, and the failure does not escape the
\* attempt: the loop is back at waiting for the next event.
C1_FailedReparseIsContained ==
    [][(ParseFails /\ TaskStep) =>
           (root_component' = root_component /\ pc' = "await")]_vars

\* C2: a reload attempt whose parse fails has requested no re-render, and
\* the coordinator goes back to Watching.
C2_FailedReparseNotifiesNobody ==
    [][(ParseFails /\ TaskStep) =>
           (reqBefore' + reqAfter' = 0 /\ pc' = "await")]_vars

\* C4: a reparse is started only for an event of kind modify-with-data-
\* change, and the published tree changes only while such an event is
\* handled.
C4_OnlyDataModifyStartsReparse ==
    [][/\ (inflight' > inflight => cur'.kind = "ModifyData")
       /\ ((Watching /\ root_component' # root_component)
               => cur.kind = "ModifyData")]_vars

\* C7: every event the callback has put into the channel is received by
\* the consumer loop, in delivery order: the events received are the first
\* events handed to the callback, in that order, and an event still queued
\* has a consumer loop that will take it.
C7_DeliveredEventsAreReceived ==
    /\ \A k \in 1..Len(rcvd) : \A j \in 1..(k - 1) : rcvd[j].id < rcvd[k].id
    /\ chan # <<>> => Alive

\* C9: once the watch loop runs, no file content and no event sequence
\* terminates the watch task (and with it the process).
C9_NothingTerminatesTheTask ==
    [][Watching => pc' # "panicked"]_vars

\* C10: the watch loop has no terminal state: its control only cycles
\* waiting -> reading -> parsing -> waiting.
C10_LoopAlwaysReturnsToWaiting ==
    [][/\ pc = "await" => pc' \in {"await", "read"}
       /\ pc = "read" => pc' \in {"read", "parse"}
       /\ pc = "parse" => pc' \in {"parse", "await"}]_vars

\* The reparse under way completes: the task goes from parsing to waiting.
ReparseCompletes == pc = "parse" /\ pc' = "await"

\* C3: for one content-modify event with a valid new content the
\* published tree becomes the tree parsed from it, and exactly one change
\* notification is emitted for that reparse, after the tree is published.
C3_ExactlyOneNotificationAfterPublish ==
    [][(ReparseCompletes /\ xml \in FileContents) =>
           /\ root_component' = ExpectedTree(xml)
           /\ reqBefore' = 0
           /\ reqAfter' = 1]_vars

\* C5: at most one reparse is in flight; an event that arrives while a
\* reparse is running is queued.
C5_AtMostOneReparseInFlight ==
    /\ inflight <= 1
    /\ \A k \in 1..Len(chan) :
           chan[k].during # 0 => chan[k].id \notin Range(started)

\* A reparse is running and a data-modify event that arrived during it is
\* queued.
C5_Witness ==
    /\ inflight = 1
    /\ pc \in {"read", "parse"}
    /\ \E k \in 1..Len(chan) :
           chan[k].kind = "ModifyData" /\ chan[k].during = cur.id

\* Two data-modify events that arrived within the same reparse cycle.
SameCycle(a, b) ==
    /\ a.id < b.id
    /\ a.kind = "ModifyData"
    /\ b.kind = "ModifyData"
    /\ a.during # 0
    /\ a.during = b.during

\* C6: two modify events that arrive within one reparse cycle result in
\* exactly one further reparse.
C6_BurstIsCoalesced ==
    \A i, j \in 1..Len(rcvd) :
        SameCycle(rcvd[i], rcvd[j]) =>
            ~(rcvd[i].id \in Range(started) /\ rcvd[j].id \in Range(started))

\* Every event the callback was called with and has returned for is in the
\* queue or was received.
Accepted == handed = Len(rcvd) + Len(chan)

\* C8 as stated: at most one event is queued between the callback and the
\* consumer, and the callback does not return until its event is accepted.
C8_SingleSlotQueue ==
    /\ Len(chan) <= 1
    /\ Accepted

\* C8 amended: at most two events are queued (the buffer of one plus the
\* slot the single sender is guaranteed); while two are queued the callback
\* of the second is blocked; and the callback does not return until its
\* event has been accepted by the queue.
C8_BoundedQueue ==
    /\ Len(chan) <= ChannelBuffer + 1
    /\ (Len(chan) > ChannelBuffer => wpc = "blocked")
    /\ Accepted

\* Two events are queued and the callback of the second is blocked.
C8_Witness ==
    /\ Len(chan) = 2
    /\ wpc = "blocked"
    /\ parked

\* C11: the published tree is replaced by a single swap: whatever the
\* interleaving of render and reload, the tree published changes only by
\* one step that puts the whole tree of a finished parse in its place, and
\* the tree a reader observes is the tree published then (the old one or
\* the new one), never a half-built one.
C11_ReaderSeesCompleteTree ==
    [][/\ root_component' # root_component =>
              /\ pc \in {"startread", "parse"}
              /\ ~parse_component(Text).panic
              /\ root_component' = parse_component(Text).value
       /\ seen' # seen =>
              \/ seen' = root_component /\ root_component' = root_component
              \/ seen' = NoComponent /\ pc \in {"spawned", "await"}]_vars

\* A reload has swapped a new tree in and a reader has observed it.
C11_Witness ==
    /\ seen = TreeB
    /\ root_component = TreeB
    /\ published
    /\ pc = "await"

(***************************************************************************)
(* One run of parse_component on a bounded markup text, an event at a      *)
(* time: the loop of read_event_into, then the return at Eof.              *)
(***************************************************************************)
\* "&amp;", which unescapes to "&", and "&foo;", which names no character.
amp_entity == <<"&", "a", "m", "p", ";">>
unknown_entity == <<"&", "f", "o", "o", ";">>

\* <c k="&amp;" k="&foo;" x:k="1"/>: the second k repeats the key of the
\* first as written; x:k does not, and its local name is k too.
RepeatedKeyTag ==
    <<"<", "c", " ", "k", "=", "\"", "&", "a", "m", "p", ";", "\"", " ",
      "k", "=", "\"", "&", "f", "o", "o", ";", "\"", " ", "x", ":", "k",
      "=", "\"", "1", "\"", "/", ">">>
\* <c k="&foo;"/>: the value cannot be unescaped.
UnknownEntityTag ==
    <<"<", "c", " ", "k", "=", "\"", "&", "f", "o", "o", ";", "\"", "/",
      ">">>

\* Pieces of markup text: tags of a and of the prefixed x:b, an end tag
\* y:b with another prefix, two text runs with a comment between them
\* (x<!---->y), and <!>, which the reader refuses.
BuildPieces ==
    {<<"<", "a", ">">>, <<"<", "/", "a", ">">>,
     <<"<", "x", ":", "b", ">">>, <<"<", "/", "x", ":", "b", ">">>,
     <<"<", "x", ":", "b", "/", ">">>,
     <<"<", "/", "y", ":", "b", ">">>,
     <<"x", "<", "!", "-", "-", "-", "-", ">", "y">>,
     <<"<", "!", ">">>,
     RepeatedKeyTag, UnknownEntityTag, unknown_entity}

RECURSIVE Concat(_)
Concat(q) == IF q = <<>> THEN <<>> ELSE Head(q) \o Concat(Tail(q))

RECURSIVE SeqsUpTo(_, _)
SeqsUpTo(S, n) ==
    IF n = 0 THEN {<<>>}
    ELSE LET shorter == SeqsUpTo(S, n - 1) IN
         shorter \cup {Append(q, x) : q \in shorter, x \in S}

\* The texts made of at most MaxLen pieces.
BuildInputs == {Concat(q) : q \in SeqsUpTo(BuildPieces, MaxLen)}

\* The reload coordinator is not running: its variables keep these values.
ReloadIdle == ReloadStart("root", TRUE, DocA)

BuildInit ==
    /\ ReloadIdle
    /\ StyleIdle
    /\ HexIdle
    /\ RenderIdle
    /\ input \in BuildInputs
    /\ markup = Markup(input)
    /\ evs = read_events(markup, <<>>)
    /\ stack = <<>>
    /\ bpc = "loop"
    /\ result = NoComponent

\* One iteration of the loop: Ok(event), with its unwraps, or
\* Err(e) => panic!.
ReadEvent ==
    /\ bpc = "loop"
    /\ evs # <<>>
    /\ IF EventPanics(Head(evs))
       THEN /\ bpc' = "panicked"
            /\ UNCHANGED <<evs, stack>>
       ELSE /\ stack' = BuildStep(stack, Head(evs))
            /\ evs' = Tail(evs)
            /\ UNCHANGED bpc
    /\ UNCHANGED <<input, markup, result, reloadVars, styleVars, hexVars, renderVars>>

\* Ok(Event::Eof) => break, then stack.pop().unwrap_or_else(..).
ReadEof ==
    /\ bpc = "loop"
    /\ evs = <<>>
    /\ result' = IF stack = <<>> THEN ErrorComponent ELSE Last(stack)
    /\ stack' = IF stack = <<>> THEN stack ELSE Front(stack)
    /\ bpc' = "done"
    /\ UNCHANGED <<input, markup, evs, reloadVars, styleVars, hexVars, renderVars>>

BuildNext == ReadEvent \/ ReadEof

BuildSpec == BuildInit /\ [][BuildNext]_vars

\* The run agrees with the operator parse_component.
BuildAgrees ==
    /\ bpc = "done" =>
           (~parse_component(input).panic
               /\ result = parse_component(input).value)
    /\ bpc = "panicked" => parse_component(input).panic

(***************************************************************************)
(* hex_to_rgb.                                                             *)
(***************************************************************************)
\* u32::from_str_radix(src, 16): an optional '+', then hex digits only.
\* It is applied to slices of two characters, whose value is below 256.
from_str_radix(src) ==
    LET digits == IF src # <<>> /\ Head(src) = "+" THEN Tail(src) ELSE src IN
    IF digits = <<>> \/ \E i \in 1..Len(digits) : ~IsHexDigit(digits[i])
    THEN [err |-> TRUE, value |-> 0]
    ELSE [err |-> FALSE, value |-> RadixValue(digits, 0)]

RECURSIVE trim_start_matches(_)
trim_start_matches(h) ==
    IF h # <<>> /\ Head(h) = "#" THEN trim_start_matches(Tail(h)) ELSE h

\* gpui's rgb(value): the channels of a packed 0xRRGGBB.
rgb(value) ==
    [value |-> value,
     r |-> (value \div 65536) % 256,
     g |-> (value \div 256) % 256,
     b |-> value % 256]

\* u32::from_str_radix(&hex[begin..begin + 2], 16): the slice is cut at
\* byte indices.
ParsePair(pair) ==
    IF pair.panic THEN [err |-> TRUE, value |-> 0]
    ELSE from_str_radix(pair.value)
Channel(h, begin) == ParsePair(str_slice(h, begin, begin + 2))

\* The three slices and their parses, then the packing; h is already
\* trimmed.  A slice past the end or off a character boundary and an
\* unwrap of Err both panic.  Each channel is below 256, so the sum fits
\* the u32 it is computed in.
Packed(r, g, b) ==
    IF r.err \/ g.err \/ b.err
    THEN [panic |-> TRUE, color |-> NoColor]
    ELSE [panic |-> FALSE,
          color |-> rgb(r.value * 65536 + g.value * 256 + b.value)]
PackBlueFirst(h) == Packed(Channel(h, 4), Channel(h, 2), Channel(h, 0))
Pack(h) == Packed(Channel(h, 0), Channel(h, 2), Channel(h, 4))

hex_to_rgb(h) == Pack(trim_start_matches(h))

\* One run of hex_to_rgb on a bounded literal.
HexAlphabet == {"0", "9", "c", "F", "z"}
HexInputs ==
    LET body == SeqsUpTo(HexAlphabet, MaxHexDigits) IN
    body \cup {<<"#">> \o q : q \in body}

HexInit ==
    /\ ReloadIdle
    /\ BuildIdle
    /\ StyleIdle
    /\ RenderIdle
    /\ hex \in HexInputs
    /\ trimmed = <<>>
    /\ hpc = "trim"
    /\ color = NoColor

HexTrim ==
    /\ hpc = "trim"
    /\ trimmed' = trim_start_matches(hex)
    /\ hpc' = "parse"
    /\ UNCHANGED <<hex, color, reloadVars, buildVars, styleVars, renderVars>>

HexParse ==
    /\ hpc = "parse"
    /\ LET p == Pack(trimmed) IN
           /\ hpc' = IF p.panic THEN "panicked" ELSE "done"
           /\ color' = p.color
    /\ UNCHANGED <<hex, trimmed, reloadVars, buildVars, styleVars, renderVars>>

HexNext == HexTrim \/ HexParse

HexSpec == HexInit /\ [][HexNext]_vars

(***************************************************************************)
(* set_attributes: the class attribute, one class name at a time.          *)
(***************************************************************************)
StartsWith(s, p) == Len(s) >= Len(p) /\ SubSeq(s, 1, Len(p)) = p
strip_prefix(s, p) == SubSeq(s, Len(p) + 1, Len(s))

RECURSIVE SplitWords(_, _)
SplitWords(cs, w) ==
    LET word == IF w = <<>> THEN <<>> ELSE <<w>> IN
    IF cs = <<>> THEN word
    ELSE IF is_whitespace(Head(cs))
         THEN word \o SplitWords(Tail(cs), <<>>)
         ELSE SplitWords(Tail(cs), Append(w, Head(cs)))

split_whitespace(v) == SplitWords(v, <<>>)

\* What a Styled method is given or writes: a kind and a number.
Arg(k, n) == [kind |-> k, n |-> n]

\* Lengths: an f32 of pixels or of rems.
Pixels(m) == Arg("px", m)
Rems(m) == Arg("rem", m)

IsNumeric(c) == is_digit(c) \/ c = "."

RECURSIVE SkipNonNumeric(_)
SkipNonNumeric(s) ==
    IF s # <<>> /\ ~IsNumeric(Head(s)) THEN SkipNonNumeric(Tail(s)) ELSE s

RECURSIVE SkipNumeric(_)
SkipNumeric(s) ==
    IF s # <<>> /\ IsNumeric(Head(s)) THEN SkipNumeric(Tail(s)) ELSE s

RECURSIVE TakeNumeric(_)
TakeNumeric(s) ==
    IF s # <<>> /\ IsNumeric(Head(s))
    THEN <<Head(s)>> \o TakeNumeric(Tail(s))
    ELSE <<>>

RECURSIVE TakeDigits(_)
TakeDigits(s) ==
    IF s # <<>> /\ is_digit(Head(s))
    THEN <<Head(s)>> \o TakeDigits(Tail(s))
    ELSE <<>>

\* An f32 is m * 2^e with m odd, or zero; INFINITY is what a numeral past
\* f32::MAX parses to.
F32(m, e) == [m |-> m, e |-> e]
f32_zero == F32(0, 0)
INFINITY == F32(1, 128)

\* A decimal numeral as the sequence of its digits' values.
RECURSIVE DigitValues(_)
DigitValues(s) ==
    IF s = <<>> THEN <<>>
    ELSE <<to_digit(Head(s))>> \o DigitValues(Tail(s))
IsZero(ds) == \A i \in 1..Len(ds) : ds[i] = 0

\* An integer numeral divided by 256: the quotient and the remainder.
RECURSIVE QuotientFrom(_, _)
QuotientFrom(ds, carry) ==
    IF ds = <<>> THEN <<>>
    ELSE LET here == carry * 10 + Head(ds)
         IN  <<here \div 256>> \o QuotientFrom(Tail(ds), here % 256)
RECURSIVE RemainderFrom(_, _)
RemainderFrom(ds, carry) ==
    IF ds = <<>> THEN carry
    ELSE RemainderFrom(Tail(ds), (carry * 10 + Head(ds)) % 256)

\* A fraction numeral times 256: the fraction digits d and the integer c
\* carried out of them.
RECURSIVE Times256(_)
Times256(fs) ==
    IF fs = <<>> THEN [d |-> <<>>, c |-> 0]
    ELSE LET r == Times256(Tail(fs))
             v == Head(fs) * 256 + r.c
         IN  [d |-> <<v % 10>> \o r.d, c |-> v \div 10]

ByteBits(b) ==
    <<(b \div 128) % 2, (b \div 64) % 2, (b \div 32) % 2, (b \div 16) % 2,
      (b \div 8) % 2, (b \div 4) % 2, (b \div 2) % 2, b % 2>>

\* The bits of an integer numeral, eight for each byte of it.
RECURSIVE IntBits(_)
IntBits(ds) ==
    IF IsZero(ds) THEN <<>>
    ELSE IntBits(QuotientFrom(ds, 0)) \o ByteBits(RemainderFrom(ds, 0))

\* The first n bytes of bits of a fraction numeral (fewer when only zeros
\* follow), and the fraction past them.
RECURSIVE FracBits(_, _)
FracBits(fs, n) ==
    IF n = 0 \/ IsZero(fs) THEN <<>>
    ELSE LET r == Times256(fs)
         IN  ByteBits(r.c) \o FracBits(r.d, n - 1)
RECURSIVE FracAfter(_, _)
FracAfter(fs, n) ==
    IF n = 0 \/ IsZero(fs) THEN fs ELSE FracAfter(Times256(fs).d, n - 1)

RECURSIVE BitsValue(_, _)
BitsValue(bits, acc) ==
    IF bits = <<>> THEN acc
    ELSE BitsValue(Tail(bits), 2 * acc + Head(bits))

RECURSIVE BitLength(_)
BitLength(n) == IF n = 0 THEN 0 ELSE 1 + BitLength(n \div 2)

\* m * 2^e with the factors of two moved out of m.
RECURSIVE Normalize(_, _)
Normalize(m, e) ==
    IF m = 0 THEN f32_zero
    ELSE IF m % 2 = 0 THEN Normalize(m \div 2, e + 1)
    ELSE IF e + BitLength(m) > 128 THEN INFINITY
    ELSE F32(m, e)

\* The bytes of fraction bits that decide an f32: past 150 zero bits the
\* value rounds to zero.
FracBytes == 22

\* The f32 nearest to whole.frac, ties to the even mantissa: the bits from
\* the first 1 on are cut after p bits (24, fewer for a subnormal) and
\* rounded by the next bit and by whether anything follows it.
BitAt(bits, j) == IF j <= Len(bits) THEN bits[j] ELSE 0
FirstOne(bits) ==
    CHOOSE j \in 1..Len(bits) : bits[j] = 1 /\ \A k \in 1..(j - 1) : bits[k] = 0
Precision(top) == IF top >= 0 - 126 THEN 24 ELSE top + 150
RoundBits(bits, first, top, p, sticky) ==
    LET kept == BitsValue([j \in 1..p |-> BitAt(bits, first + j - 1)], 0)
        up == BitAt(bits, first + p) = 1 /\ (sticky \/ kept % 2 = 1)
    IN  Normalize(IF up THEN kept + 1 ELSE kept, top - p + 1)
RoundAt(bits, first, top, p, tail) ==
    IF p < 0 THEN f32_zero
    ELSE RoundBits(bits, first, top, p,
                   tail \/ \E j \in (first + p + 1)..Len(bits) : bits[j] = 1)
RoundFrom(bits, first, top, tail) ==
    RoundAt(bits, first, top, Precision(top), tail)
NearestOf(ib, bits, tail) ==
    IF \A j \in 1..Len(bits) : bits[j] = 0 THEN f32_zero
    ELSE RoundFrom(bits, FirstOne(bits), Len(ib) - FirstOne(bits), tail)
NearestBits(ib, fb, tail) == NearestOf(ib, ib \o fb, tail)
NearestF32(whole, frac) ==
    NearestBits(IntBits(whole), FracBits(frac, FracBytes),
                ~IsZero(FracAfter(frac, FracBytes)))

\* str::parse::<f32> of digits and dots: at most one dot and at least one
\* digit, else an error.
parse_f32(s) ==
    LET whole == TakeDigits(s)
        rest == strip_prefix(s, whole)
        frac == IF rest = <<>> THEN <<>> ELSE Tail(rest)
    IN  IF (\E i \in 1..Len(frac) : ~is_digit(frac[i]))
            \/ (whole = <<>> /\ frac = <<>>)
        THEN [err |-> TRUE, value |-> f32_zero]
        ELSE [err |-> FALSE,
              value |-> NearestF32(DigitValues(whole), DigitValues(frac))]

px_unit == <<"p", "x">>
rem_unit == <<"r", "e", "m">>

f32_or_zero(parsed) == IF parsed.err THEN f32_zero ELSE parsed.value
LengthKeepingNumber(unit_part, rounded_value) ==
    CASE unit_part = rem_unit -> Rems(rounded_value)
      [] OTHER -> Pixels(rounded_value)
ExtractLengthKeepsNumber(class_name) ==
    LengthKeepingNumber(
        SkipNumeric(class_name),
        f32_or_zero(parse_f32(TakeNumeric(SkipNonNumeric(class_name)))))
\* match unit_part { "px" => .., "rem" => .., _ => Pixels(px(0.0)) }
LengthIn(unit_part, rounded_value) ==
    CASE unit_part = px_unit -> Pixels(rounded_value)
      [] unit_part = rem_unit -> Rems(rounded_value)
      [] OTHER -> Pixels(f32_zero)
extract_length_from_class_name(class_name) ==
    LengthIn(SkipNumeric(class_name),
             f32_or_zero(parse_f32(TakeNumeric(SkipNonNumeric(class_name)))))

\* suffix.split('-').next()
RECURSIVE FirstSegment(_)
FirstSegment(s) ==
    IF s # <<>> /\ Head(s) # "-"
    THEN <<Head(s)>> \o FirstSegment(Tail(s))
    ELSE <<>>

\* The method the rounded-<...> arm calls for a first segment.
RoundedMethod(seg) ==
    CASE seg = <<"t">> -> "rounded_t"
      [] seg = <<"r">> -> "rounded_r"
      [] seg = <<"b">> -> "rounded_b"
      [] seg = <<"l">> -> "rounded_l"
      [] seg = <<"t", "l">> -> "rounded_tl"
      [] seg = <<"t", "r">> -> "rounded_tr"
      [] seg = <<"b", "r">> -> "rounded_br"
      [] seg = <<"b", "l">> -> "rounded_bl"
      [] OTHER -> "rounded"

bg_prefix == <<"b", "g", "-", "[">>
text_color_prefix ==
    <<"t", "e", "x", "t", "-", "c", "o", "l", "o", "r", "-", "[">>
rounded_prefix == <<"r", "o", "u", "n", "d", "e", "d", "-">>

\* Class names of the enumerated table that the bounded inputs use.
flex == <<"f", "l", "e", "x">>
block == <<"b", "l", "o", "c", "k">>
h_4 == <<"h", "-", "4">>
h_8 == <<"h", "-", "8">>
w_4 == <<"w", "-", "4">>
rounded_md == <<"r", "o", "u", "n", "d", "e", "d", "-", "m", "d">>

\* match class_name { .. }: every arm is "<class name>" => element =
\* element.<method>(); the table pairs each arm's class name with its
\* method, in the order of the arms.
StaticTable ==
    {
    <<<<"f", "l", "e", "x">>, "flex">>,
     <<<<"b", "l", "o", "c", "k">>, "block">>,
     <<<<"a", "b", "s", "o", "l", "u", "t", "e">>, "absolute">>,
     <<<<"r", "e", "l", "a", "t", "i", "v", "e">>, "relative">>,
     <<<<"v", "i", "s", "i", "b", "l", "e">>, "visible">>,
     <<<<"i", "n", "v", "i", "s", "i", "b", "l", "e">>, "invisible">>,
     <<<<"o", "v", "e", "r", "f", "l", "o", "w", "-", "h", "i", "d", "d", "e", "n">>, "overflow_hidden">>,
     <<<<"o", "v", "e", "r", "f", "l", "o", "w", "-", "x", "-", "h", "i", "d", "d", "e", "n">>, "overflow_x_hidden">>,
     <<<<"o", "v", "e", "r", "f", "l", "o", "w", "-", "y", "-", "h", "i", "d", "d", "e", "n">>, "overflow_y_hidden">>,
     <<<<"c", "u", "r", "s", "o", "r", "-", "d", "e", "f", "a", "u", "l", "t">>, "cursor_default">>,
     <<<<"c", "u", "r", "s", "o", "r", "-", "p", "o", "i", "n", "t", "e", "r">>, "cursor_pointer">>,
     <<<<"c", "u", "r", "s", "o", "r", "-", "t", "e", "x", "t">>, "cursor_text">>,
     <<<<"c", "u", "r", "s", "o", "r", "-", "m", "o", "v", "e">>, "cursor_move">>,
     <<<<"c", "u", "r", "s", "o", "r", "-", "n", "o", "t", "-", "a", "l", "l", "o", "w", "e", "d">>, "cursor_not_allowed">>,
     <<<<"c", "u", "r", "s", "o", "r", "-", "c", "o", "n", "t", "e", "x", "t", "-", "m", "e", "n", "u">>, "cursor_context_menu">>,
     <<<<"c", "u", "r", "s", "o", "r", "-", "c", "r", "o", "s", "s", "h", "a", "i", "r">>, "cursor_crosshair">>,
     <<<<"c", "u", "r", "s", "o", "r", "-", "v", "e", "r", "t", "i", "c", "a", "l", "-", "t", "e", "x", "t">>, "cursor_vertical_text">>,
     <<<<"c", "u", "r", "s", "o", "r", "-", "a", "l", "i", "a", "s">>, "cursor_alias">>,
     <<<<"c", "u", "r", "s", "o", "r", "-", "c", "o", "p", "y">>, "cursor_copy">>,
     <<<<"c", "u", "r", "s", "o", "r", "-", "n", "o", "-", "d", "r", "o", "p">>, "cursor_no_drop">>,
     <<<<"c", "u", "r", "s", "o", "r", "-", "g", "r", "a", "b">>, "cursor_grab">>,
     <<<<"c", "u", "r", "s", "o", "r", "-", "g", "r", "a", "b", "b", "i", "n", "g">>, "cursor_grabbing">>,
     <<<<"c", "u", "r", "s", "o", "r", "-", "c", "o", "l", "-", "r", "e", "s", "i", "z", "e">>, "cursor_col_resize">>,
     <<<<"c", "u", "r", "s", "o", "r", "-", "r", "o", "w", "-", "r", "e", "s", "i", "z", "e">>, "cursor_row_resize">>,
     <<<<"c", "u", "r", "s", "o", "r", "-", "n", "-", "r", "e", "s", "i", "z", "e">>, "cursor_n_resize">>,
     <<<<"c", "u", "r", "s", "o", "r", "-", "e", "-", "r", "e", "s", "i", "z", "e">>, "cursor_e_resize">>,
     <<<<"c", "u", "r", "s", "o", "r", "-", "s", "-", "r", "e", "s", "i", "z", "e">>, "cursor_s_resize">>,
     <<<<"c", "u", "r", "s", "o", "r", "-", "w", "-", "r", "e", "s", "i", "z", "e">>, "cursor_w_resize">>,
     <<<<"j", "u", "s", "t", "i", "f", "y", "-", "c", "e", "n", "t", "e", "r">>, "justify_center">>,
     <<<<"j", "u", "s", "t", "i", "f", "y", "-", "b", "e", "t", "w", "e", "e", "n">>, "justify_between">>,
     <<<<"j", "u", "s", "t", "i", "f", "y", "-", "a", "r", "o", "u", "n", "d">>, "justify_around">>,
     <<<<"j", "u", "s", "t", "i", "f", "y", "-", "s", "t", "a", "r", "t">>, "justify_start">>,
     <<<<"j", "u", "s", "t", "i", "f", "y", "-", "e", "n", "d">>, "justify_end">>,
     <<<<"i", "t", "e", "m", "s", "-", "s", "t", "a", "r", "t">>, "items_start">>,
     <<<<"i", "t", "e", "m", "s", "-", "e", "n", "d">>, "items_end">>,
     <<<<"i", "t", "e", "m", "s", "-", "c", "e", "n", "t", "e", "r">>, "items_center">>,
     <<<<"f", "l", "e", "x", "-", "c", "o", "l">>, "flex_col">>,
     <<<<"f", "l", "e", "x", "-", "r", "o", "w">>, "flex_row">>,
     <<<<"f", "l", "e", "x", "-", "c", "o", "l", "_", "r", "e", "v", "e", "r", "s", "e">>, "flex_col_reverse">>,
     <<<<"f", "l", "e", "x", "-", "r", "o", "w", "_", "r", "e", "v", "e", "r", "s", "e">>, "flex_row_reverse">>,
     <<<<"f", "l", "e", "x", "-", "1">>, "flex_1">>,
     <<<<"f", "l", "e", "x", "-", "a", "u", "t", "o">>, "flex_auto">>,
     <<<<"f", "l", "e", "x", "-", "i", "n", "i", "t", "i", "a", "l">>, "flex_initial">>,
     <<<<"f", "l", "e", "x", "-", "n", "o", "n", "e">>, "flex_none">>,
     <<<<"f", "l", "e", "x", "-", "g", "r", "o", "w">>, "flex_grow">>,
     <<<<"f", "l", "e", "x", "-", "s", "h", "r", "i", "n", "k">>, "flex_shrink">>,
     <<<<"f", "l", "e", "x", "-", "s", "h", "r", "i", "n", "k", "_", "0">>, "flex_shrink_0">>,
     <<<<"s", "h", "a", "d", "o", "w", "-", "s", "m">>, "shadow_sm">>,
     <<<<"s", "h", "a", "d", "o", "w", "-", "m", "d">>, "shadow_md">>,
     <<<<"s", "h", "a", "d", "o", "w", "-", "l", "g">>, "shadow_lg">>,
     <<<<"s", "h", "a", "d", "o", "w", "-", "x", "l">>, "shadow_xl">>,
     <<<<"s", "h", "a", "d", "o", "w", "-", "2", "x", "l">>, "shadow_2xl">>,
     <<<<"h", "-", "0">>, "h_0">>,
     <<<<"h", "-", "1">>, "h_1">>,
     <<<<"h", "-", "2">>, "h_2">>,
     <<<<"h", "-", "3">>, "h_3">>,
     <<<<"h", "-", "4">>, "h_4">>,
     <<<<"h", "-", "5">>, "h_5">>,
     <<<<"h", "-", "6">>, "h_6">>,
     <<<<"h", "-", "8">>, "h_8">>,
     <<<<"h", "-", "1", "0">>, "h_10">>,
     <<<<"h", "-", "1", "2">>, "h_12">>,
     <<<<"h", "-", "1", "6">>, "h_16">>,
     <<<<"h", "-", "2", "0">>, "h_20">>,
     <<<<"h", "-", "2", "4">>, "h_24">>,
     <<<<"h", "-", "3", "2">>, "h_32">>,
     <<<<"h", "-", "4", "0">>, "h_40">>,
     <<<<"h", "-", "4", "8">>, "h_48">>,
     <<<<"h", "-", "5", "6">>, "h_56">>,
     <<<<"h", "-", "6", "4">>, "h_64">>,
     <<<<"h", "-", "7", "2">>, "h_72">>,
     <<<<"h", "-", "8", "0">>, "h_80">>,
     <<<<"h", "-", "9", "6">>, "h_96">>,
     <<<<"h", "-", "a", "u", "t", "o">>, "h_auto">>,
     <<<<"h", "-", "f", "u", "l", "l">>, "h_full">>,
     <<<<"h", "-", "1", "/", "2">>, "h_1_2">>,
     <<<<"h", "-", "1", "/", "3">>, "h_1_3">>,
     <<<<"h", "-", "2", "/", "3">>, "h_2_3">>,
     <<<<"h", "-", "1", "/", "4">>, "h_1_4">>,
     <<<<"h", "-", "2", "/", "4">>, "h_2_4">>,
     <<<<"h", "-", "3", "/", "4">>, "h_3_4">>,
     <<<<"h", "-", "1", "/", "5">>, "h_1_5">>,
     <<<<"h", "-", "2", "/", "5">>, "h_2_5">>,
     <<<<"h", "-", "3", "/", "5">>, "h_3_5">>,
     <<<<"h", "-", "4", "/", "5">>, "h_4_5">>,
     <<<<"h", "-", "1", "/", "6">>, "h_1_6">>,
     <<<<"h", "-", "5", "/", "6">>, "h_5_6">>,
     <<<<"h", "-", "1", "/", "1", "2">>, "h_1_12">>,
     <<<<"w", "-", "0">>, "w_0">>,
     <<<<"w", "-", "1">>, "w_1">>,
     <<<<"w", "-", "2">>, "w_2">>,
     <<<<"w", "-", "3">>, "w_3">>,
     <<<<"w", "-", "4">>, "w_4">>,
     <<<<"w", "-", "5">>, "w_5">>,
     <<<<"w", "-", "6">>, "w_6">>,
     <<<<"w", "-", "8">>, "w_8">>,
     <<<<"w", "-", "1", "0">>, "w_10">>,
     <<<<"w", "-", "1", "2">>, "w_12">>,
     <<<<"w", "-", "1", "6">>, "w_16">>,
     <<<<"w", "-", "2", "0">>, "w_20">>,
     <<<<"w", "-", "2", "4">>, "w_24">>,
     <<<<"w", "-", "3", "2">>, "w_32">>,
     <<<<"w", "-", "4", "0">>, "w_40">>,
     <<<<"w", "-", "4", "8">>, "w_48">>,
     <<<<"w", "-", "5", "6">>, "w_56">>,
     <<<<"w", "-", "6", "4">>, "w_64">>,
     <<<<"w", "-", "7", "2">>, "w_72">>,
     <<<<"w", "-", "8", "0">>, "w_80">>,
     <<<<"w", "-", "9", "6">>, "w_96">>,
     <<<<"w", "-", "a", "u", "t", "o">>, "w_auto">>,
     <<<<"w", "-", "f", "u", "l", "l">>, "w_full">>,
     <<<<"w", "-", "1", "/", "2">>, "w_1_2">>,
     <<<<"w", "-", "1", "/", "3">>, "w_1_3">>,
     <<<<"w", "-", "2", "/", "3">>, "w_2_3">>,
     <<<<"w", "-", "1", "/", "4">>, "w_1_4">>,
     <<<<"w", "-", "2", "/", "4">>, "w_2_4">>,
     <<<<"w", "-", "3", "/", "4">>, "w_3_4">>,
     <<<<"w", "-", "1", "/", "5">>, "w_1_5">>,
     <<<<"w", "-", "2", "/", "5">>, "w_2_5">>,
     <<<<"w", "-", "3", "/", "5">>, "w_3_5">>,
     <<<<"w", "-", "4", "/", "5">>, "w_4_5">>,
     <<<<"w", "-", "1", "/", "6">>, "w_1_6">>,
     <<<<"w", "-", "5", "/", "6">>, "w_5_6">>,
     <<<<"w", "-", "1", "/", "1", "2">>, "w_1_12">>,
     <<<<"m", "i", "n", "-", "h", "-", "0">>, "min_h_0">>,
     <<<<"m", "i", "n", "-", "h", "-", "f", "u", "l", "l">>, "min_h_full">>,
     <<<<"m", "i", "n", "-", "w", "-", "0">>, "min_w_0">>,
     <<<<"m", "i", "n", "-", "w", "-", "f", "u", "l", "l">>, "min_w_full">>,
     <<<<"m", "a", "x", "-", "h", "-", "0">>, "max_h_0">>,
     <<<<"m", "a", "x", "-", "h", "-", "f", "u", "l", "l">>, "max_h_full">>,
     <<<<"m", "a", "x", "-", "w", "-", "0">>, "max_w_0">>,
     <<<<"m", "a", "x", "-", "w", "-", "f", "u", "l", "l">>, "max_w_full">>,
     <<<<"p", "-", "0">>, "p_0">>,
     <<<<"p", "-", "1">>, "p_1">>,
     <<<<"p", "-", "2">>, "p_2">>,
     <<<<"p", "-", "3">>, "p_3">>,
     <<<<"p", "-", "4">>, "p_4">>,
     <<<<"p", "-", "5">>, "p_5">>,
     <<<<"p", "-", "6">>, "p_6">>,
     <<<<"p", "-", "8">>, "p_8">>,
     <<<<"p", "-", "1", "0">>, "p_10">>,
     <<<<"p", "-", "1", "2">>, "p_12">>,
     <<<<"p", "-", "1", "6">>, "p_16">>,
     <<<<"p", "-", "2", "0">>, "p_20">>,
     <<<<"p", "-", "2", "4">>, "p_24">>,
     <<<<"p", "-", "3", "2">>, "p_32">>,
     <<<<"p", "-", "4", "0">>, "p_40">>,
     <<<<"p", "-", "4", "8">>, "p_48">>,
     <<<<"p", "-", "5", "6">>, "p_56">>,
     <<<<"p", "-", "6", "4">>, "p_64">>,
     <<<<"p", "-", "7", "2">>, "p_72">>,
     <<<<"p", "-", "8", "0">>, "p_80">>,
     <<<<"p", "-", "9", "6">>, "p_96">>,
     <<<<"p", "-", "p", "x">>, "p_px">>,
     <<<<"p", "-", "1", "/", "2">>, "p_1_2">>,
     <<<<"p", "-", "1", "/", "3">>, "p_1_3">>,
     <<<<"p", "-", "2", "/", "3">>, "p_2_3">>,
     <<<<"p", "-", "1", "/", "4">>, "p_1_4">>,
     <<<<"p", "-", "2", "/", "4">>, "p_2_4">>,
     <<<<"p", "-", "3", "/", "4">>, "p_3_4">>,
     <<<<"p", "-", "1", "/", "5">>, "p_1_5">>,
     <<<<"p", "-", "2", "/", "5">>, "p_2_5">>,
     <<<<"p", "-", "3", "/", "5">>, "p_3_5">>,
     <<<<"p", "-", "4", "/", "5">>, "p_4_5">>,
     <<<<"p", "-", "1", "/", "6">>, "p_1_6">>,
     <<<<"p", "-", "5", "/", "6">>, "p_5_6">>,
     <<<<"p", "-", "1", "/", "1", "2">>, "p_1_12">>,
     <<<<"p", "x", "-", "0">>, "px_0">>,
     <<<<"p", "x", "-", "1">>, "px_1">>,
     <<<<"p", "x", "-", "2">>, "px_2">>,
     <<<<"p", "x", "-", "3">>, "px_3">>,
     <<<<"p", "x", "-", "4">>, "px_4">>,
     <<<<"p", "x", "-", "5">>, "px_5">>,
     <<<<"p", "x", "-", "6">>, "px_6">>,
     <<<<"p", "x", "-", "8">>, "px_8">>,
     <<<<"p", "x", "-", "1", "0">>, "px_10">>,
     <<<<"p", "x", "-", "1", "2">>, "px_12">>,
     <<<<"p", "x", "-", "1", "6">>, "px_16">>,
     <<<<"p", "x", "-", "2", "0">>, "px_20">>,
     <<<<"p", "x", "-", "2", "4">>, "px_24">>,
     <<<<"p", "x", "-", "3", "2">>, "px_32">>,
     <<<<"p", "x", "-", "4", "0">>, "px_40">>,
     <<<<"p", "x", "-", "4", "8">>, "px_48">>,
     <<<<"p", "x", "-", "5", "6">>, "px_56">>,
     <<<<"p", "x", "-", "6", "4">>, "px_64">>,
     <<<<"p", "x", "-", "7", "2">>, "px_72">>,
     <<<<"p", "x", "-", "8", "0">>, "px_80">>,
     <<<<"p", "x", "-", "9", "6">>, "px_96">>,
     <<<<"p", "x", "-", "p", "x">>, "px_px">>,
     <<<<"p", "x", "-", "1", "/", "2">>, "px_1_2">>,
     <<<<"p", "x", "-", "1", "/", "3">>, "px_1_3">>,
     <<<<"p", "x", "-", "2", "/", "3">>, "px_2_3">>,
     <<<<"p", "x", "-", "1", "/", "4">>, "px_1_4">>,
     <<<<"p", "x", "-", "2", "/", "4">>, "px_2_4">>,
     <<<<"p", "x", "-", "3", "/", "4">>, "px_3_4">>,
     <<<<"p", "x", "-", "1", "/", "5">>, "px_1_5">>,
     <<<<"p", "x", "-", "2", "/", "5">>, "px_2_5">>,
     <<<<"p", "x", "-", "3", "/", "5">>, "px_3_5">>,
     <<<<"p", "x", "-", "4", "/", "5">>, "px_4_5">>,
     <<<<"p", "x", "-", "1", "/", "6">>, "px_1_6">>,
     <<<<"p", "x", "-", "5", "/", "6">>, "px_5_6">>,
     <<<<"p", "x", "-", "1", "/", "1", "2">>, "px_1_12">>,
     <<<<"p", "y", "-", "0">>, "py_0">>,
     <<<<"p", "y", "-", "1">>, "py_1">>,
     <<<<"p", "y", "-", "2">>, "py_2">>,
     <<<<"p", "y", "-", "3">>, "py_3">>,
     <<<<"p", "y", "-", "4">>, "py_4">>,
     <<<<"p", "y", "-", "5">>, "py_5">>,
     <<<<"p", "y", "-", "6">>, "py_6">>,
     <<<<"p", "y", "-", "8">>, "py_8">>,
     <<<<"p", "y", "-", "1", "0">>, "py_10">>,
     <<<<"p", "y", "-", "1", "2">>, "py_12">>,
     <<<<"p", "y", "-", "1", "6">>, "py_16">>,
     <<<<"p", "y", "-", "2", "0">>, "py_20">>,
     <<<<"p", "y", "-", "2", "4">>, "py_24">>,
     <<<<"p", "y", "-", "3", "2">>, "py_32">>,
     <<<<"p", "y", "-", "4", "0">>, "py_40">>,
     <<<<"p", "y", "-", "4", "8">>, "py_48">>,
     <<<<"p", "y", "-", "5", "6">>, "py_56">>,
     <<<<"p", "y", "-", "6", "4">>, "py_64">>,
     <<<<"p", "y", "-", "7", "2">>, "py_72">>,
     <<<<"p", "y", "-", "8", "0">>, "py_80">>,
     <<<<"p", "y", "-", "9", "6">>, "py_96">>,
     <<<<"p", "y", "-", "p", "x">>, "py_px">>,
     <<<<"p", "y", "-", "1", "/", "2">>, "py_1_2">>,
     <<<<"p", "y", "-", "1", "/", "3">>, "py_1_3">>,
     <<<<"p", "y", "-", "2", "/", "3">>, "py_2_3">>,
     <<<<"p", "y", "-", "1", "/", "4">>, "py_1_4">>,
     <<<<"p", "y", "-", "2", "/", "4">>, "py_2_4">>,
     <<<<"p", "y", "-", "3", "/", "4">>, "py_3_4">>,
     <<<<"p", "y", "-", "1", "/", "5">>, "py_1_5">>,
     <<<<"p", "y", "-", "2", "/", "5">>, "py_2_5">>,
     <<<<"p", "y", "-", "3", "/", "5">>, "py_3_5">>,
     <<<<"p", "y", "-", "4", "/", "5">>, "py_4_5">>,
     <<<<"p", "y", "-", "1", "/", "6">>, "py_1_6">>,
     <<<<"p", "y", "-", "5", "/", "6">>, "py_5_6">>,
     <<<<"p", "y", "-", "1", "/", "1", "2">>, "py_1_12">>,
     <<<<"m", "-", "0">>, "m_0">>,
     <<<<"m", "-", "1">>, "m_1">>,
     <<<<"m", "-", "2">>, "m_2">>,
     <<<<"m", "-", "3">>, "m_3">>,
     <<<<"m", "-", "4">>, "m_4">>,
     <<<<"m", "-", "5">>, "m_5">>,
     <<<<"m", "-", "6">>, "m_6">>,
     <<<<"m", "-", "8">>, "m_8">>,
     <<<<"m", "-", "1", "0">>, "m_10">>,
     <<<<"m", "-", "1", "2">>, "m_12">>,
     <<<<"m", "-", "1", "6">>, "m_16">>,
     <<<<"m", "-", "2", "0">>, "m_20">>,
     <<<<"m", "-", "2", "4">>, "m_24">>,
     <<<<"m", "-", "3", "2">>, "m_32">>,
     <<<<"m", "-", "4", "0">>, "m_40">>,
     <<<<"m", "-", "4", "8">>, "m_48">>,
     <<<<"m", "-", "5", "6">>, "m_56">>,
     <<<<"m", "-", "6", "4">>, "m_64">>,
     <<<<"m", "-", "7", "2">>, "m_72">>,
     <<<<"m", "-", "8", "0">>, "m_80">>,
     <<<<"m", "-", "9", "6">>, "m_96">>,
     <<<<"m", "-", "p", "x">>, "m_px">>,
     <<<<"m", "-", "1", "/", "2">>, "m_1_2">>,
     <<<<"m", "-", "1", "/", "3">>, "m_1_3">>,
     <<<<"m", "-", "2", "/", "3">>, "m_2_3">>,
     <<<<"m", "-", "1", "/", "4">>, "m_1_4">>,
     <<<<"m", "-", "2", "/", "4">>, "m_2_4">>,
     <<<<"m", "-", "3", "/", "4">>, "m_3_4">>,
     <<<<"m", "-", "1", "/", "5">>, "m_1_5">>,
     <<<<"m", "-", "2", "/", "5">>, "m_2_5">>,
     <<<<"m", "-", "3", "/", "5">>, "m_3_5">>,
     <<<<"m", "-", "4", "/", "5">>, "m_4_5">>,
     <<<<"m", "-", "1", "/", "6">>, "m_1_6">>,
     <<<<"m", "-", "5", "/", "6">>, "m_5_6">>,
     <<<<"m", "-", "1", "/", "1", "2">>, "m_1_12">>,
     <<<<"m", "x", "-", "0">>, "mx_0">>,
     <<<<"m", "x", "-", "1">>, "mx_1">>,
     <<<<"m", "x", "-", "2">>, "mx_2">>,
     <<<<"m", "x", "-", "3">>, "mx_3">>,
     <<<<"m", "x", "-", "4">>, "mx_4">>,
     <<<<"m", "x", "-", "5">>, "mx_5">>,
     <<<<"m", "x", "-", "6">>, "mx_6">>,
     <<<<"m", "x", "-", "8">>, "mx_8">>,
     <<<<"m", "x", "-", "1", "0">>, "mx_10">>,
     <<<<"m", "x", "-", "1", "2">>, "mx_12">>,
     <<<<"m", "x", "-", "1", "6">>, "mx_16">>,
     <<<<"m", "x", "-", "2", "0">>, "mx_20">>,
     <<<<"m", "x", "-", "2", "4">>, "mx_24">>,
     <<<<"m", "x", "-", "3", "2">>, "mx_32">>,
     <<<<"m", "x", "-", "4", "0">>, "mx_40">>,
     <<<<"m", "x", "-", "4", "8">>, "mx_48">>,
     <<<<"m", "x", "-", "5", "6">>, "mx_56">>,
     <<<<"m", "x", "-", "6", "4">>, "mx_64">>,
     <<<<"m", "x", "-", "7", "2">>, "mx_72">>,
     <<<<"m", "x", "-", "8", "0">>, "mx_80">>,
     <<<<"m", "x", "-", "9", "6">>, "mx_96">>,
     <<<<"m", "x", "-", "p", "x">>, "mx_px">>,
     <<<<"m", "x", "-", "1", "/", "2">>, "mx_1_2">>,
     <<<<"m", "x", "-", "1", "/", "3">>, "mx_1_3">>,
     <<<<"m", "x", "-", "2", "/", "3">>, "mx_2_3">>,
     <<<<"m", "x", "-", "1", "/", "4">>, "mx_1_4">>,
     <<<<"m", "x", "-", "2", "/", "4">>, "mx_2_4">>,
     <<<<"m", "x", "-", "3", "/", "4">>, "mx_3_4">>,
     <<<<"m", "x", "-", "1", "/", "5">>, "mx_1_5">>,
     <<<<"m", "x", "-", "2", "/", "5">>, "mx_2_5">>,
     <<<<"m", "x", "-", "3", "/", "5">>, "mx_3_5">>,
     <<<<"m", "x", "-", "4", "/", "5">>, "mx_4_5">>,
     <<<<"m", "x", "-", "1", "/", "6">>, "mx_1_6">>,
     <<<<"m", "x", "-", "5", "/", "6">>, "mx_5_6">>,
     <<<<"m", "x", "-", "1", "/", "1", "2">>, "mx_1_12">>,
     <<<<"m", "y", "-", "0">>, "my_0">>,
     <<<<"m", "y", "-", "1">>, "my_1">>,
     <<<<"m", "y", "-", "2">>, "my_2">>,
     <<<<"m", "y", "-", "3">>, "my_3">>,
     <<<<"m", "y", "-", "4">>, "my_4">>,
     <<<<"m", "y", "-", "5">>, "my_5">>,
     <<<<"m", "y", "-", "6">>, "my_6">>,
     <<<<"m", "y", "-", "8">>, "my_8">>,
     <<<<"m", "y", "-", "1", "0">>, "my_10">>,
     <<<<"m", "y", "-", "1", "2">>, "my_12">>,
     <<<<"m", "y", "-", "1", "6">>, "my_16">>,
     <<<<"m", "y", "-", "2", "0">>, "my_20">>,
     <<<<"m", "y", "-", "2", "4">>, "my_24">>,
     <<<<"m", "y", "-", "3", "2">>, "my_32">>,
     <<<<"m", "y", "-", "4", "0">>, "my_40">>,
     <<<<"m", "y", "-", "4", "8">>, "my_48">>,
     <<<<"m", "y", "-", "5", "6">>, "my_56">>,
     <<<<"m", "y", "-", "6", "4">>, "my_64">>,
     <<<<"m", "y", "-", "7", "2">>, "my_72">>,
     <<<<"m", "y", "-", "8", "0">>, "my_80">>,
     <<<<"m", "y", "-", "9", "6">>, "my_96">>,
     <<<<"m", "y", "-", "p", "x">>, "my_px">>,
     <<<<"m", "y", "-", "1", "/", "2">>, "my_1_2">>,
     <<<<"m", "y", "-", "1", "/", "3">>, "my_1_3">>,
     <<<<"m", "y", "-", "2", "/", "3">>, "my_2_3">>,
     <<<<"m", "y", "-", "1", "/", "4">>, "my_1_4">>,
     <<<<"m", "y", "-", "2", "/", "4">>, "my_2_4">>,
     <<<<"m", "y", "-", "3", "/", "4">>, "my_3_4">>,
     <<<<"m", "y", "-", "1", "/", "5">>, "my_1_5">>,
     <<<<"m", "y", "-", "2", "/", "5">>, "my_2_5">>,
     <<<<"m", "y", "-", "3", "/", "5">>, "my_3_5">>,
     <<<<"m", "y", "-", "4", "/", "5">>, "my_4_5">>,
     <<<<"m", "y", "-", "1", "/", "6">>, "my_1_6">>,
     <<<<"m", "y", "-", "5", "/", "6">>, "my_5_6">>,
     <<<<"m", "y", "-", "1", "/", "1", "2">>, "my_1_12">>,
     <<<<"m", "-", "a", "u", "t", "o">>, "m_auto">>,
     <<<<"m", "-", "f", "u", "l", "l">>, "m_full">>,
     <<<<"m", "t", "-", "0">>, "mt_0">>,
     <<<<"m", "t", "-", "1">>, "mt_1">>,
     <<<<"m", "t", "-", "2">>, "mt_2">>,
     <<<<"m", "t", "-", "3">>, "mt_3">>,
     <<<<"m", "t", "-", "4">>, "mt_4">>,
     <<<<"m", "t", "-", "5">>, "mt_5">>,
     <<<<"m", "t", "-", "6">>, "mt_6">>,
     <<<<"m", "t", "-", "8">>, "mt_8">>,
     <<<<"m", "t", "-", "1", "0">>, "mt_10">>,
     <<<<"m", "t", "-", "1", "2">>, "mt_12">>,
     <<<<"m", "t", "-", "1", "6">>, "mt_16">>,
     <<<<"m", "t", "-", "2", "0">>, "mt_20">>,
     <<<<"m", "t", "-", "2", "4">>, "mt_24">>,
     <<<<"m", "t", "-", "3", "2">>, "mt_32">>,
     <<<<"m", "t", "-", "4", "0">>, "mt_40">>,
     <<<<"m", "t", "-", "4", "8">>, "mt_48">>,
     <<<<"m", "t", "-", "5", "6">>, "mt_56">>,
     <<<<"m", "t", "-", "6", "4">>, "mt_64">>,
     <<<<"m", "t", "-", "7", "2">>, "mt_72">>,
     <<<<"m", "t", "-", "8", "0">>, "mt_80">>,
     <<<<"m", "t", "-", "9", "6">>, "mt_96">>,
     <<<<"m", "t", "-", "p", "x">>, "mt_px">>,
     <<<<"m", "t", "-", "1", "/", "2">>, "mt_1_2">>,
     <<<<"m", "t", "-", "1", "/", "3">>, "mt_1_3">>,
     <<<<"m", "t", "-", "2", "/", "3">>, "mt_2_3">>,
     <<<<"m", "t", "-", "1", "/", "4">>, "mt_1_4">>,
     <<<<"m", "t", "-", "2", "/", "4">>, "mt_2_4">>,
     <<<<"m", "t", "-", "3", "/", "4">>, "mt_3_4">>,
     <<<<"m", "t", "-", "1", "/", "5">>, "mt_1_5">>,
     <<<<"m", "t", "-", "2", "/", "5">>, "mt_2_5">>,
     <<<<"m", "t", "-", "3", "/", "5">>, "mt_3_5">>,
     <<<<"m", "t", "-", "4", "/", "5">>, "mt_4_5">>,
     <<<<"m", "t", "-", "1", "/", "6">>, "mt_1_6">>,
     <<<<"m", "t", "-", "5", "/", "6">>, "mt_5_6">>,
     <<<<"m", "t", "-", "1", "/", "1", "2">>, "mt_1_12">>,
     <<<<"m", "r", "-", "0">>, "mr_0">>,
     <<<<"m", "r", "-", "1">>, "mr_1">>,
     <<<<"m", "r", "-", "2">>, "mr_2">>,
     <<<<"m", "r", "-", "3">>, "mr_3">>,
     <<<<"m", "r", "-", "4">>, "mr_4">>,
     <<<<"m", "r", "-", "5">>, "mr_5">>,
     <<<<"m", "r", "-", "6">>, "mr_6">>,
     <<<<"m", "r", "-", "8">>, "mr_8">>,
     <<<<"m", "r", "-", "1", "0">>, "mr_10">>,
     <<<<"m", "r", "-", "1", "2">>, "mr_12">>,
     <<<<"m", "r", "-", "1", "6">>, "mr_16">>,
     <<<<"m", "r", "-", "2", "0">>, "mr_20">>,
     <<<<"m", "r", "-", "2", "4">>, "mr_24">>,
     <<<<"m", "r", "-", "3", "2">>, "mr_32">>,
     <<<<"m", "r", "-", "4", "0">>, "mr_40">>,
     <<<<"m", "r", "-", "4", "8">>, "mr_48">>,
     <<<<"m", "r", "-", "5", "6">>, "mr_56">>,
     <<<<"m", "r", "-", "6", "4">>, "mr_64">>,
     <<<<"m", "r", "-", "7", "2">>, "mr_72">>,
     <<<<"m", "r", "-", "8", "0">>, "mr_80">>,
     <<<<"m", "r", "-", "9", "6">>, "mr_96">>,
     <<<<"m", "r", "-", "p", "x">>, "mr_px">>,
     <<<<"m", "r", "-", "1", "/", "2">>, "mr_1_2">>,
     <<<<"m", "r", "-", "1", "/", "3">>, "mr_1_3">>,
     <<<<"m", "r", "-", "2", "/", "3">>, "mr_2_3">>,
     <<<<"m", "r", "-", "1", "/", "4">>, "mr_1_4">>,
     <<<<"m", "r", "-", "2", "/", "4">>, "mr_2_4">>,
     <<<<"m", "r", "-", "3", "/", "4">>, "mr_3_4">>,
     <<<<"m", "r", "-", "1", "/", "5">>, "mr_1_5">>,
     <<<<"m", "r", "-", "2", "/", "5">>, "mr_2_5">>,
     <<<<"m", "r", "-", "3", "/", "5">>, "mr_3_5">>,
     <<<<"m", "r", "-", "4", "/", "5">>, "mr_4_5">>,
     <<<<"m", "r", "-", "1", "/", "6">>, "mr_1_6">>,
     <<<<"m", "r", "-", "5", "/", "6">>, "mr_5_6">>,
     <<<<"m", "r", "-", "1", "/", "1", "2">>, "mr_1_12">>,
     <<<<"m", "b", "-", "0">>, "mb_0">>,
     <<<<"m", "b", "-", "1">>, "mb_1">>,
     <<<<"m", "b", "-", "2">>, "mb_2">>,
     <<<<"m", "b", "-", "3">>, "mb_3">>,
     <<<<"m", "b", "-", "4">>, "mb_4">>,
     <<<<"m", "b", "-", "5">>, "mb_5">>,
     <<<<"m", "b", "-", "6">>, "mb_6">>,
     <<<<"m", "b", "-", "8">>, "mb_8">>,
     <<<<"m", "b", "-", "1", "0">>, "mb_10">>,
     <<<<"m", "b", "-", "1", "2">>, "mb_12">>,
     <<<<"m", "b", "-", "1", "6">>, "mb_16">>,
     <<<<"m", "b", "-", "2", "0">>, "mb_20">>,
     <<<<"m", "b", "-", "2", "4">>, "mb_24">>,
     <<<<"m", "b", "-", "3", "2">>, "mb_32">>,
     <<<<"m", "b", "-", "4", "0">>, "mb_40">>,
     <<<<"m", "b", "-", "4", "8">>, "mb_48">>,
     <<<<"m", "b", "-", "5", "6">>, "mb_56">>,
     <<<<"m", "b", "-", "6", "4">>, "mb_64">>,
     <<<<"m", "b", "-", "7", "2">>, "mb_72">>,
     <<<<"m", "b", "-", "8", "0">>, "mb_80">>,
     <<<<"m", "b", "-", "9", "6">>, "mb_96">>,
     <<<<"m", "b", "-", "p", "x">>, "mb_px">>,
     <<<<"m", "b", "-", "1", "/", "2">>, "mb_1_2">>,
     <<<<"m", "b", "-", "1", "/", "3">>, "mb_1_3">>,
     <<<<"m", "b", "-", "2", "/", "3">>, "mb_2_3">>,
     <<<<"m", "b", "-", "1", "/", "4">>, "mb_1_4">>,
     <<<<"m", "b", "-", "2", "/", "4">>, "mb_2_4">>,
     <<<<"m", "b", "-", "3", "/", "4">>, "mb_3_4">>,
     <<<<"m", "b", "-", "1", "/", "5">>, "mb_1_5">>,
     <<<<"m", "b", "-", "2", "/", "5">>, "mb_2_5">>,
     <<<<"m", "b", "-", "3", "/", "5">>, "mb_3_5">>,
     <<<<"m", "b", "-", "4", "/", "5">>, "mb_4_5">>,
     <<<<"m", "b", "-", "1", "/", "6">>, "mb_1_6">>,
     <<<<"m", "b", "-", "5", "/", "6">>, "mb_5_6">>,
     <<<<"m", "b", "-", "1", "/", "1", "2">>, "mb_1_12">>,
     <<<<"m", "l", "-", "0">>, "ml_0">>,
     <<<<"m", "l", "-", "1">>, "ml_1">>,
     <<<<"m", "l", "-", "2">>, "ml_2">>,
     <<<<"m", "l", "-", "3">>, "ml_3">>,
     <<<<"m", "l", "-", "4">>, "ml_4">>,
     <<<<"m", "l", "-", "5">>, "ml_5">>,
     <<<<"m", "l", "-", "6">>, "ml_6">>,
     <<<<"m", "l", "-", "8">>, "ml_8">>,
     <<<<"m", "l", "-", "1", "0">>, "ml_10">>,
     <<<<"m", "l", "-", "1", "2">>, "ml_12">>,
     <<<<"m", "l", "-", "1", "6">>, "ml_16">>,
     <<<<"m", "l", "-", "2", "0">>, "ml_20">>,
     <<<<"m", "l", "-", "2", "4">>, "ml_24">>,
     <<<<"m", "l", "-", "3", "2">>, "ml_32">>,
     <<<<"m", "l", "-", "4", "0">>, "ml_40">>,
     <<<<"m", "l", "-", "4", "8">>, "ml_48">>,
     <<<<"m", "l", "-", "5", "6">>, "ml_56">>,
     <<<<"m", "l", "-", "6", "4">>, "ml_64">>,
     <<<<"m", "l", "-", "7", "2">>, "ml_72">>,
     <<<<"m", "l", "-", "8", "0">>, "ml_80">>,
     <<<<"m", "l", "-", "9", "6">>, "ml_96">>,
     <<<<"m", "l", "-", "p", "x">>, "ml_px">>,
     <<<<"m", "l", "-", "1", "/", "2">>, "ml_1_2">>,
     <<<<"m", "l", "-", "1", "/", "3">>, "ml_1_3">>,
     <<<<"m", "l", "-", "2", "/", "3">>, "ml_2_3">>,
     <<<<"m", "l", "-", "1", "/", "4">>, "ml_1_4">>,
     <<<<"m", "l", "-", "2", "/", "4">>, "ml_2_4">>,
     <<<<"m", "l", "-", "3", "/", "4">>, "ml_3_4">>,
     <<<<"m", "l", "-", "1", "/", "5">>, "ml_1_5">>,
     <<<<"m", "l", "-", "2", "/", "5">>, "ml_2_5">>,
     <<<<"m", "l", "-", "3", "/", "5">>, "ml_3_5">>,
     <<<<"m", "l", "-", "4", "/", "5">>, "ml_4_5">>,
     <<<<"m", "l", "-", "1", "/", "6">>, "ml_1_6">>,
     <<<<"m", "l", "-", "5", "/", "6">>, "ml_5_6">>,
     <<<<"m", "l", "-", "1", "/", "1", "2">>, "ml_1_12">>,
     <<<<"s", "i", "z", "e", "-", "0">>, "size_0">>,
     <<<<"s", "i", "z", "e", "-", "0", ".", "5">>, "size_0p5">>,
     <<<<"s", "i", "z", "e", "-", "1">>, "size_1">>,
     <<<<"s", "i", "z", "e", "-", "1", ".", "5">>, "size_1p5">>,
     <<<<"s", "i", "z", "e", "-", "2">>, "size_2">>,
     <<<<"s", "i", "z", "e", "-", "2", ".", "5">>, "size_2p5">>,
     <<<<"s", "i", "z", "e", "-", "3">>, "size_3">>,
     <<<<"s", "i", "z", "e", "-", "3", ".", "5">>, "size_3p5">>,
     <<<<"s", "i", "z", "e", "-", "4">>, "size_4">>,
     <<<<"s", "i", "z", "e", "-", "5">>, "size_5">>,
     <<<<"s", "i", "z", "e", "-", "6">>, "size_6">>,
     <<<<"s", "i", "z", "e", "-", "8">>, "size_8">>,
     <<<<"s", "i", "z", "e", "-", "1", "0">>, "size_10">>,
     <<<<"s", "i", "z", "e", "-", "1", "2">>, "size_12">>,
     <<<<"s", "i", "z", "e", "-", "1", "6">>, "size_16">>,
     <<<<"s", "i", "z", "e", "-", "2", "0">>, "size_20">>,
     <<<<"s", "i", "z", "e", "-", "2", "4">>, "size_24">>,
     <<<<"s", "i", "z", "e", "-", "3", "2">>, "size_32">>,
     <<<<"s", "i", "z", "e", "-", "4", "0">>, "size_40">>,
     <<<<"s", "i", "z", "e", "-", "4", "8">>, "size_48">>,
     <<<<"s", "i", "z", "e", "-", "5", "6">>, "size_56">>,
     <<<<"s", "i", "z", "e", "-", "6", "4">>, "size_64">>,
     <<<<"s", "i", "z", "e", "-", "7", "2">>, "size_72">>,
     <<<<"s", "i", "z", "e", "-", "8", "0">>, "size_80">>,
     <<<<"s", "i", "z", "e", "-", "9", "6">>, "size_96">>,
     <<<<"s", "i", "z", "e", "-", "1", "/", "2">>, "size_1_2">>,
     <<<<"s", "i", "z", "e", "-", "1", "/", "3">>, "size_1_3">>,
     <<<<"s", "i", "z", "e", "-", "2", "/", "3">>, "size_2_3">>,
     <<<<"s", "i", "z", "e", "-", "1", "/", "4">>, "size_1_4">>,
     <<<<"s", "i", "z", "e", "-", "2", "/", "4">>, "size_2_4">>,
     <<<<"s", "i", "z", "e", "-", "3", "/", "4">>, "size_3_4">>,
     <<<<"s", "i", "z", "e", "-", "1", "/", "5">>, "size_1_5">>,
     <<<<"s", "i", "z", "e", "-", "2", "/", "5">>, "size_2_5">>,
     <<<<"s", "i", "z", "e", "-", "3", "/", "5">>, "size_3_5">>,
     <<<<"s", "i", "z", "e", "-", "4", "/", "5">>, "size_4_5">>,
     <<<<"s", "i", "z", "e", "-", "1", "/", "6">>, "size_1_6">>,
     <<<<"s", "i", "z", "e", "-", "5", "/", "6">>, "size_5_6">>,
     <<<<"s", "i", "z", "e", "-", "1", "/", "1", "2">>, "size_1_12">>,
     <<<<"s", "i", "z", "e", "-", "f", "u", "l", "l">>, "size_full">>,
     <<<<"s", "i", "z", "e", "-", "a", "u", "t", "o">>, "size_auto">>,
     <<<<"b", "o", "r", "d", "e", "r", "-", "s", "o", "l", "i", "d">>, "border">>,
     <<<<"b", "o", "r", "d", "e", "r", "-", "0">>, "border_0">>,
     <<<<"b", "o", "r", "d", "e", "r", "-", "2">>, "border_2">>,
     <<<<"b", "o", "r", "d", "e", "r", "-", "4">>, "border_4">>,
     <<<<"b", "o", "r", "d", "e", "r", "-", "8">>, "border_8">>,
     <<<<"b", "o", "r", "d", "e", "r">>, "border">>,
     <<<<"b", "o", "r", "d", "e", "r", "-", "t", "-", "0">>, "border_t_0">>,
     <<<<"b", "o", "r", "d", "e", "r", "-", "t", "-", "2">>, "border_t_2">>,
     <<<<"b", "o", "r", "d", "e", "r", "-", "t", "-", "4">>, "border_t_4">>,
     <<<<"b", "o", "r", "d", "e", "r", "-", "t", "-", "8">>, "border_t_8">>,
     <<<<"b", "o", "r", "d", "e", "r", "-", "t">>, "border_t">>,
     <<<<"b", "o", "r", "d", "e", "r", "-", "r", "-", "0">>, "border_r_0">>,
     <<<<"b", "o", "r", "d", "e", "r", "-", "r", "-", "2">>, "border_r_2">>,
     <<<<"b", "o", "r", "d", "e", "r", "-", "r", "-", "4">>, "border_r_4">>,
     <<<<"b", "o", "r", "d", "e", "r", "-", "r", "-", "8">>, "border_r_8">>,
     <<<<"b", "o", "r", "d", "e", "r", "-", "r">>, "border_r">>,
     <<<<"b", "o", "r", "d", "e", "r", "-", "b", "-", "0">>, "border_b_0">>,
     <<<<"b", "o", "r", "d", "e", "r", "-", "b", "-", "2">>, "border_b_2">>,
     <<<<"b", "o", "r", "d", "e", "r", "-", "b", "-", "4">>, "border_b_4">>,
     <<<<"b", "o", "r", "d", "e", "r", "-", "b", "-", "8">>, "border_b_8">>,
     <<<<"b", "o", "r", "d", "e", "r", "-", "b">>, "border_b">>,
     <<<<"b", "o", "r", "d", "e", "r", "-", "l", "-", "0">>, "border_l_0">>,
     <<<<"b", "o", "r", "d", "e", "r", "-", "l", "-", "2">>, "border_l_2">>,
     <<<<"b", "o", "r", "d", "e", "r", "-", "l", "-", "4">>, "border_l_4">>,
     <<<<"b", "o", "r", "d", "e", "r", "-", "l", "-", "8">>, "border_l_8">>,
     <<<<"b", "o", "r", "d", "e", "r", "-", "l">>, "border_l">>,
     <<<<"b", "o", "r", "d", "e", "r", "-", "x", "-", "0">>, "border_x_0">>,
     <<<<"b", "o", "r", "d", "e", "r", "-", "x", "-", "2">>, "border_x_2">>,
     <<<<"b", "o", "r", "d", "e", "r", "-", "x", "-", "4">>, "border_x_4">>,
     <<<<"b", "o", "r", "d", "e", "r", "-", "x", "-", "8">>, "border_x_8">>,
     <<<<"b", "o", "r", "d", "e", "r", "-", "x">>, "border_x">>,
     <<<<"b", "o", "r", "d", "e", "r", "-", "y", "-", "0">>, "border_y_0">>,
     <<<<"b", "o", "r", "d", "e", "r", "-", "y", "-", "2">>, "border_y_2">>,
     <<<<"b", "o", "r", "d", "e", "r", "-", "y", "-", "4">>, "border_y_4">>,
     <<<<"b", "o", "r", "d", "e", "r", "-", "y", "-", "8">>, "border_y_8">>,
     <<<<"b", "o", "r", "d", "e", "r", "-", "y">>, "border_y">>,
     <<<<"r", "o", "u", "n", "d", "e", "d", "-", "n", "o", "n", "e">>, "rounded_none">>,
     <<<<"r", "o", "u", "n", "d", "e", "d", "-", "s", "m">>, "rounded_sm">>,
     <<<<"r", "o", "u", "n", "d", "e", "d", "-", "m", "d">>, "rounded_md">>,
     <<<<"r", "o", "u", "n", "d", "e", "d", "-", "l", "g">>, "rounded_lg">>,
     <<<<"r", "o", "u", "n", "d", "e", "d", "-", "f", "u", "l", "l">>, "rounded_full">>,
     <<<<"r", "o", "u", "n", "d", "e", "d", "-", "t", "-", "n", "o", "n", "e">>, "rounded_t_none">>,
     <<<<"r", "o", "u", "n", "d", "e", "d", "-", "t", "-", "s", "m">>, "rounded_t_sm">>,
     <<<<"r", "o", "u", "n", "d", "e", "d", "-", "t", "-", "m", "d">>, "rounded_t_md">>,
     <<<<"r", "o", "u", "n", "d", "e", "d", "-", "t", "-", "l", "g">>, "rounded_t_lg">>,
     <<<<"r", "o", "u", "n", "d", "e", "d", "-", "t", "-", "f", "u", "l", "l">>, "rounded_t_full">>,
     <<<<"r", "o", "u", "n", "d", "e", "d", "-", "r", "-", "n", "o", "n", "e">>, "rounded_r_none">>,
     <<<<"r", "o", "u", "n", "d", "e", "d", "-", "r", "-", "s", "m">>, "rounded_r_sm">>,
     <<<<"r", "o", "u", "n", "d", "e", "d", "-", "r", "-", "m", "d">>, "rounded_r_md">>,
     <<<<"r", "o", "u", "n", "d", "e", "d", "-", "r", "-", "l", "g">>, "rounded_r_lg">>,
     <<<<"r", "o", "u", "n", "d", "e", "d", "-", "r", "-", "f", "u", "l", "l">>, "rounded_r_full">>,
     <<<<"r", "o", "u", "n", "d", "e", "d", "-", "b", "-", "n", "o", "n", "e">>, "rounded_b_none">>,
     <<<<"r", "o", "u", "n", "d", "e", "d", "-", "b", "-", "s", "m">>, "rounded_b_sm">>,
     <<<<"r", "o", "u", "n", "d", "e", "d", "-", "b", "-", "m", "d">>, "rounded_b_md">>,
     <<<<"r", "o", "u", "n", "d", "e", "d", "-", "b", "-", "l", "g">>, "rounded_b_lg">>,
     <<<<"r", "o", "u", "n", "d", "e", "d", "-", "b", "-", "f", "u", "l", "l">>, "rounded_b_full">>,
     <<<<"r", "o", "u", "n", "d", "e", "d", "-", "l", "-", "n", "o", "n", "e">>, "rounded_l_none">>,
     <<<<"r", "o", "u", "n", "d", "e", "d", "-", "l", "-", "s", "m">>, "rounded_l_sm">>,
     <<<<"r", "o", "u", "n", "d", "e", "d", "-", "l", "-", "m", "d">>, "rounded_l_md">>,
     <<<<"r", "o", "u", "n", "d", "e", "d", "-", "l", "-", "l", "g">>, "rounded_l_lg">>,
     <<<<"r", "o", "u", "n", "d", "e", "d", "-", "l", "-", "f", "u", "l", "l">>, "rounded_l_full">>,
     <<<<"r", "o", "u", "n", "d", "e", "d", "-", "t", "l", "-", "n", "o", "n", "e">>, "rounded_tl_none">>,
     <<<<"r", "o", "u", "n", "d", "e", "d", "-", "t", "l", "-", "s", "m">>, "rounded_tl_sm">>,
     <<<<"r", "o", "u", "n", "d", "e", "d", "-", "t", "l", "-", "m", "d">>, "rounded_tl_md">>,
     <<<<"r", "o", "u", "n", "d", "e", "d", "-", "t", "l", "-", "l", "g">>, "rounded_tl_lg">>,
     <<<<"r", "o", "u", "n", "d", "e", "d", "-", "t", "l", "-", "f", "u", "l", "l">>, "rounded_tl_full">>,
     <<<<"r", "o", "u", "n", "d", "e", "d", "-", "t", "r", "-", "n", "o", "n", "e">>, "rounded_tr_none">>,
     <<<<"r", "o", "u", "n", "d", "e", "d", "-", "t", "r", "-", "s", "m">>, "rounded_tr_sm">>,
     <<<<"r", "o", "u", "n", "d", "e", "d", "-", "t", "r", "-", "m", "d">>, "rounded_tr_md">>,
     <<<<"r", "o", "u", "n", "d", "e", "d", "-", "t", "r", "-", "l", "g">>, "rounded_tr_lg">>,
     <<<<"r", "o", "u", "n", "d", "e", "d", "-", "t", "r", "-", "f", "u", "l", "l">>, "rounded_tr_full">>,
     <<<<"r", "o", "u", "n", "d", "e", "d", "-", "b", "r", "-", "n", "o", "n", "e">>, "rounded_br_none">>,
     <<<<"r", "o", "u", "n", "d", "e", "d", "-", "b", "r", "-", "s", "m">>, "rounded_br_sm">>,
     <<<<"r", "o", "u", "n", "d", "e", "d", "-", "b", "r", "-", "m", "d">>, "rounded_br_md">>,
     <<<<"r", "o", "u", "n", "d", "e", "d", "-", "b", "r", "-", "l", "g">>, "rounded_br_lg">>,
     <<<<"r", "o", "u", "n", "d", "e", "d", "-", "b", "r", "-", "f", "u", "l", "l">>, "rounded_br_full">>,
     <<<<"r", "o", "u", "n", "d", "e", "d", "-", "b", "l", "-", "n", "o", "n", "e">>, "rounded_bl_none">>,
     <<<<"r", "o", "u", "n", "d", "e", "d", "-", "b", "l", "-", "s", "m">>, "rounded_bl_sm">>,
     <<<<"r", "o", "u", "n", "d", "e", "d", "-", "b", "l", "-", "m", "d">>, "rounded_bl_md">>,
     <<<<"r", "o", "u", "n", "d", "e", "d", "-", "b", "l", "-", "l", "g">>, "rounded_bl_lg">>,
     <<<<"r", "o", "u", "n", "d", "e", "d", "-", "b", "l", "-", "f", "u", "l", "l">>, "rounded_bl_full">>}

StaticNames == {arm[1] : arm \in StaticTable}
StaticMethod ==
    [name \in StaticNames |->
        (CHOOSE arm \in StaticTable : arm[1] = name)[2]]

\* The method of the arm that matches class_name, "" for the default arm.
static_class(class_name) ==
    IF class_name \in StaticNames THEN StaticMethod[class_name] ELSE ""

NoArg == Arg("none", 0)
Op(m, a) == [method |-> m, arg |-> a]
NoOps == [panic |-> FALSE, ops |-> <<>>]
OneOp(m, a) == [panic |-> FALSE, ops |-> <<Op(m, a)>>]
Panicked == [panic |-> TRUE, ops |-> <<>>]

\* The default arm: rounded-<...> is resolved, anything else is ignored.
DefaultArmAlwaysRounds(class_name) ==
    LET absolute_length == extract_length_from_class_name(class_name) IN
    OneOp(RoundedMethod(FirstSegment(class_name)), absolute_length)
DefaultArm(class_name) ==
    IF StartsWith(class_name, rounded_prefix)
    THEN LET suffix == strip_prefix(class_name, rounded_prefix)
             absolute_length == extract_length_from_class_name(suffix)
         IN  OneOp(RoundedMethod(FirstSegment(suffix)), absolute_length)
    ELSE NoOps

\* &class_name[prefix.len()..class_name.len() - 1], then hex_to_rgb: the
\* slice is cut at byte indices, one byte before the end.
ColorOf(c, m) ==
    IF c.panic THEN Panicked ELSE OneOp(m, Arg("color", c.color.value))
SliceColor(hex_part, m) ==
    IF hex_part.panic THEN Panicked
    ELSE ColorOf(hex_to_rgb(hex_part.value), m)
ColorOp(class_name, prefix, m) ==
    SliceColor(str_slice(class_name, Len(prefix), str_len(class_name) - 1), m)

\* The body of the loop over the class names.
resolve_class(class_name) ==
    IF StartsWith(class_name, bg_prefix)
    THEN ColorOp(class_name, bg_prefix, "bg")
    ELSE IF StartsWith(class_name, text_color_prefix)
    THEN ColorOp(class_name, text_color_prefix, "text_color")
    ELSE IF static_class(class_name) # ""
    THEN OneOp(static_class(class_name), NoArg)
    ELSE DefaultArm(class_name)

Corners == {"top_left", "top_right", "bottom_right", "bottom_left"}

\* The style fields a Styled method writes, for the methods the bounded
\* inputs call; the style of an element is followed for these alone.
Targets(m) ==
    CASE m \in {"flex", "block"} -> {"display"}
      [] m \in {"h_4", "h_8"} -> {"height"}
      [] m = "w_4" -> {"width"}
      [] m = "bg" -> {"background"}
      [] m = "text_color" -> {"text_color"}
      [] m \in {"rounded", "rounded_md"} -> Corners
      [] m = "rounded_t" -> {"top_left", "top_right"}
      [] m = "rounded_r" -> {"top_right", "bottom_right"}
      [] m = "rounded_b" -> {"bottom_right", "bottom_left"}
      [] m = "rounded_l" -> {"top_left", "bottom_left"}
      [] m = "rounded_tl" -> {"top_left"}
      [] m = "rounded_tr" -> {"top_right"}
      [] m = "rounded_br" -> {"bottom_right"}
      [] m = "rounded_bl" -> {"bottom_left"}
      [] OTHER -> {}

\* The value a Styled method writes there; <<>> is a field never written.
Written(op) ==
    CASE op.method = "flex" -> <<Arg("flex", 0)>>
      [] op.method = "block" -> <<Arg("block", 0)>>
      [] op.method \in {"h_4", "w_4"} -> <<Rems(F32(1, 0))>>
      [] op.method = "h_8" -> <<Rems(F32(1, 1))>>
      [] op.method = "rounded_md" -> <<Rems(F32(3, 0 - 3))>>
      [] OTHER -> <<op.arg>>

\* element = element.method(arg)
ApplyKeepFirst(el, op) ==
    [ops |-> Append(el.ops, op),
     style |-> [k \in StyleSlots |->
                   IF k \in Targets(op.method) /\ el.style[k] = <<>>
                   THEN Written(op) ELSE el.style[k]]]
Apply(el, op) ==
    [ops |-> Append(el.ops, op),
     style |-> [k \in StyleSlots |->
                   IF k \in Targets(op.method)
                   THEN Written(op) ELSE el.style[k]]]

RECURSIVE ApplyAll(_, _)
ApplyAll(el, ops) ==
    IF ops = <<>> THEN el ELSE ApplyAll(Apply(el, Head(ops)), Tail(ops))

\* attributes.iter().find(|(k, _)| k == "class")
ClassAttrs(attrs) == SelectSeq(attrs, LAMBDA kv : kv[1] = <<"c", "l", "a", "s", "s">>)

RECURSIVE ResolveAll(_, _)
ResolveAll(el, cls) ==
    IF cls = <<>> THEN [panic |-> FALSE, element |-> el]
    ELSE LET r == resolve_class(Head(cls)) IN
         IF r.panic THEN [panic |-> TRUE, element |-> el]
         ELSE ResolveAll(ApplyAll(el, r.ops), Tail(cls))

set_attributes(el, attrs) ==
    IF ClassAttrs(attrs) = <<>> THEN [panic |-> FALSE, element |-> el]
    ELSE ResolveAll(el, split_whitespace(ClassAttrs(attrs)[1][2]))

\* rounded-<number><unit> and rounded-<direction>-<number><unit>
RoundedClass(dir, num, unit) ==
    rounded_prefix \o (IF dir = <<>> THEN <<>> ELSE dir \o <<"-">>)
        \o num \o unit

RoundedDirs ==
    {<<"t">>, <<"r">>, <<"b">>, <<"l">>,
     <<"t", "l">>, <<"t", "r">>, <<"b", "r">>, <<"b", "l">>}
RoundedNumbers == {<<"4">>, <<"2">>, <<"1", ".", "5">>}
RoundedUnits == {px_unit, rem_unit}
\* Units that extract_length_from_class_name does not know.
em_unit == <<"e", "m">>
UnknownUnits == {em_unit}

bg_orange ==
    <<"b", "g", "-", "[", "#", "f", "f", "8", "0", "0", "0", "]">>
text_color_blue ==
    text_color_prefix \o <<"#", "0", "0", "0", "0", "F", "F", "]">>
frobnicate_9 ==
    <<"f", "r", "o", "b", "n", "i", "c", "a", "t", "e", "-", "9">>

StyleTokens ==
    {flex, block, h_4, h_8, w_4, rounded_md,
     bg_orange, bg_malformed, text_color_blue, frobnicate_9,
     RoundedClass(<<"t">>, <<"4">>, px_unit),
     RoundedClass(<<>>, <<"4">>, px_unit),
     RoundedClass(<<"b", "l">>, <<"2">>, rem_unit),
     RoundedClass(<<>>, <<"1", ".", "5">>, rem_unit),
     RoundedClass(<<>>, <<"4">>, em_unit)}

\* The class names written one after the other, sep between them.
RECURSIVE Join(_, _)
Join(words, sep) ==
    IF words = <<>> THEN <<>>
    ELSE IF Len(words) = 1 THEN Head(words)
    ELSE Head(words) \o sep \o Join(Tail(words), sep)

\* What separates the class names of a class attribute: a space, or a
\* line break and a no-break space.
Separators == {<<" ">>, <<"\n", "U+00A0">>}

\* One run of set_attributes on a fresh element.
StyleInit ==
    /\ ReloadIdle
    /\ BuildIdle
    /\ HexIdle
    /\ RenderIdle
    /\ class_list \in SeqsUpTo(StyleTokens, MaxClasses)
    /\ \E has \in BOOLEAN, sep \in Separators :
           /\ has \/ class_list = <<>>
           /\ attributes = IF has
                           THEN <<<<<<"c", "l", "a", "s", "s">>, Join(class_list, sep)>>>>
                           ELSE <<>>
    /\ classes = <<>>
    /\ element = NewElement
    /\ spc = "find"

\* if let Some(class_attr_value) = .., then split_whitespace.
FindClass ==
    /\ spc = "find"
    /\ IF ClassAttrs(attributes) = <<>>
       THEN /\ spc' = "done"
            /\ UNCHANGED classes
       ELSE /\ classes' = split_whitespace(ClassAttrs(attributes)[1][2])
            /\ spc' = "loop"
    /\ UNCHANGED <<class_list, attributes, element,
                   reloadVars, buildVars, hexVars, renderVars>>

\* One iteration of for class_name in classes.
ResolveClass ==
    /\ spc = "loop"
    /\ classes # <<>>
    /\ LET r == resolve_class(Head(classes)) IN
           IF r.panic
           THEN /\ spc' = "panicked"
                /\ UNCHANGED <<classes, element>>
           ELSE /\ element' = ApplyAll(element, r.ops)
                /\ classes' = Tail(classes)
                /\ UNCHANGED spc
    /\ UNCHANGED <<class_list, attributes, reloadVars, buildVars, hexVars, renderVars>>

\* The loop is over: the element is returned.
StyleReturn ==
    /\ spc = "loop"
    /\ classes = <<>>
    /\ spc' = "done"
    /\ UNCHANGED <<class_list, attributes, classes, element,
                   reloadVars, buildVars, hexVars, renderVars>>

StyleNext == FindClass \/ ResolveClass \/ StyleReturn

StyleSpec == StyleInit /\ [][StyleNext]_vars

\* The run agrees with the operator set_attributes.
StyleAgrees ==
    LET whole == set_attributes(NewElement, attributes) IN
    /\ spc = "done" => (~whole.panic /\ element = whole.element)
    /\ spc = "panicked" => whole.panic

(***************************************************************************)
(* render_component.                                                       *)
(***************************************************************************)
\* attributes.iter().find(|(k, _)| k == key).map(|(_, v)| v.clone())
find_last(attrs, key) ==
    LET m == SelectSeq(attrs, LAMBDA kv : kv[1] = key) IN
    IF m = <<>> THEN <<>> ELSE <<m[Len(m)][2]>>
find(attrs, key) ==
    LET m == SelectSeq(attrs, LAMBDA kv : kv[1] = key) IN
    IF m = <<>> THEN <<>> ELSE <<m[1][2]>>

TextChild(t) == Rendered("Text", <<>>, t, <<>>, NewElement)

\* "Error: img element must have src attribute"
missing_src_text ==
    <<"E", "r", "r", "o", "r", ":", " ", "i", "m", "g", " ", "e", "l", "e",
      "m", "e", "n", "t", " ", "m", "u", "s", "t", " ", "h", "a", "v", "e",
      " ", "s", "r", "c", " ", "a", "t", "t", "r", "i", "b", "u", "t", "e">>

\* div().child("Error: img element must have src attribute")
Placeholder ==
    Rendered("Div", <<>>, <<>>, <<TextChild(<<missing_src_text>>)>>,
             NewElement)

\* The else branch of if let Some(src) = src, and of if let Some(path).
MissingAttributeAborts == [panic |-> TRUE, value |-> NoRendered]
MissingAttribute == [panic |-> FALSE, value |-> Placeholder]

\* img(src) or svg().path(path), then set_attributes.
RenderWithSource(kind, source, attrs) ==
    LET styled == set_attributes(NewElement, attrs) IN
    IF styled.panic THEN [panic |-> TRUE, value |-> NoRendered]
    ELSE [panic |-> FALSE,
          value |-> Rendered(kind, source, <<>>, <<>>, styled.element)]

RECURSIVE render_component(_)
render_component(c) ==
    CASE c.elem = <<"d", "i", "v">> ->
             LET kids == [i \in 1..Len(c.children) |->
                             render_component(c.children[i])]
                 text == IF c.text = <<>> THEN <<>>
                         ELSE <<TextChild(c.text)>>
                 styled == set_attributes(NewElement, c.attributes)
             IN  IF (\E i \in 1..Len(kids) : kids[i].panic) \/ styled.panic
                 THEN [panic |-> TRUE, value |-> NoRendered]
                 ELSE [panic |-> FALSE,
                       value |-> Rendered("Div", <<>>, <<>>,
                                     [i \in 1..Len(kids) |-> kids[i].value]
                                         \o text,
                                     styled.element)]
      [] c.elem = <<"i", "m", "g">> ->
             IF find(c.attributes, <<"s", "r", "c">>) # <<>>
             THEN RenderWithSource("Img", find(c.attributes, <<"s", "r", "c">>),
                                   c.attributes)
             ELSE MissingAttribute
      [] c.elem = <<"s", "v", "g">> ->
             IF find(c.attributes, <<"p", "a", "t", "h">>) # <<>>
             THEN RenderWithSource("Svg", find(c.attributes, <<"p", "a", "t", "h">>),
                                   c.attributes)
             ELSE MissingAttribute
      [] OTHER ->
             [panic |-> FALSE,
              value |-> Rendered("Div", <<>>, <<>>, <<>>, NewElement)]

(***************************************************************************)
(* The render path of the reload coordinators: Render::render reads the    *)
(* published tree (through the Mutex in root, so not while the reload      *)
(* holds it) and renders it.  It is let run between any two steps of the   *)
(* reload.  A panic of the rendering ends the process.                     *)
(***************************************************************************)
\* root's own render_component (src/src/hello.rs): a div applies its bg
\* attributes with hex_to_rgb and renders its children; any other element
\* is an empty div.
RECURSIVE hello_render_panics(_)
hello_render_panics(c) ==
    /\ c.elem = <<"d", "i", "v">>
    /\ \/ \E i \in 1..Len(c.attributes) :
              /\ c.attributes[i][1] = <<"b", "g">>
              /\ hex_to_rgb(c.attributes[i][2]).panic
       \/ \E i \in 1..Len(c.children) : hello_render_panics(c.children[i])

RenderPanics ==
    IF prog = "root" THEN hello_render_panics(root_component)
    ELSE render_component(root_component).panic

Render ==
    /\ Alive
    /\ pc \in {"spawned", "await"}
    /\ prog = "root" => lock = "free"
    /\ seen' = root_component
    /\ IF RenderPanics
       THEN /\ pc' = "panicked"
            /\ lock' = IF prog = "root" THEN "poisoned" ELSE lock
       ELSE UNCHANGED <<pc, lock>>
    /\ UNCHANGED <<pureVars, prog, envVars, chanVars, cur, xml, xmlver, fd,
                   root_component, inflight, rcvd, started, published,
                   reqBefore, reqAfter>>

Environment ==
    \/ TruncateData
    \/ WriteData
    \/ CreateFile
    \/ RemoveFile
    \/ Touch
    \/ WatcherError

WatcherThread ==
    \/ CallbackSend
    \/ CallbackReturn

Task ==
    \/ StartupOpen
    \/ StartupRead
    \/ Startup
    \/ StartWatch
    \/ RootReceive
    \/ RootReadBytes
    \/ RootRead
    \/ RootParse
    \/ CfgReceive
    \/ CfgSubscriberReadBytes
    \/ CfgSubscriberRead
    \/ CfgSubscriberParse

Next == Environment \/ WatcherThread \/ Task \/ Render

Spec == Init /\ [][Next]_vars

\* One run of render_component on a bounded component.
AttrPairs ==
    {<<<<"c", "l", "a", "s", "s">>, h_4>>, <<<<"c", "l", "a", "s", "s">>, h_8>>,
     <<<<"s", "r", "c">>, <<"a">>>>, <<<<"s", "r", "c">>, <<"b">>>>,
     <<<<"p", "a", "t", "h">>, <<"p">>>>, <<<<"p", "a", "t", "h">>, <<"q">>>>,
     <<<<"e", "r", "r", "o", "r">>, error_text>>}
AttrSeqs == SeqsUpTo(AttrPairs, MaxAttrs)

RenderLeaves ==
    {Component(e, t, at, <<>>) :
         e \in {<<"d", "i", "v">>, <<"i", "m", "g">>, <<"s", "v", "g">>, <<"p">>}, t \in {<<>>, <<<<"x">>>>},
         at \in AttrSeqs}

RenderKids ==
    {Component(<<"i", "m", "g">>, <<>>, <<<<<<"s", "r", "c">>, <<"a">>>>, <<<<"c", "l", "a", "s", "s">>, h_4>>>>, <<>>),
     Component(<<"i", "m", "g">>, <<>>, <<<<<<"c", "l", "a", "s", "s">>, h_4>>>>, <<>>),
     Component(<<"s", "v", "g">>, <<>>, <<<<<<"p", "a", "t", "h">>, <<"p">>>>>>, <<>>),
     Component(<<"s", "v", "g">>, <<>>, <<>>, <<>>),
     Component(<<"d", "i", "v">>, <<<<"x">>>>, <<<<<<"c", "l", "a", "s", "s">>, h_8>>>>, <<>>),
     Component(<<"d", "i", "v">>, <<>>, <<<<<<"c", "l", "a", "s", "s">>, bg_malformed>>>>, <<>>),
     Component(<<"d", "i", "v">>, <<>>, <<>>,
               <<Component(<<"i", "m", "g">>, <<>>, <<>>, <<>>),
                 Component(<<"d", "i", "v">>, <<<<"y">>>>, <<>>, <<>>)>>)}

RenderParents ==
    {Component(<<"d", "i", "v">>, t, <<<<<<"c", "l", "a", "s", "s">>, w_4>>>>, kids) :
         t \in {<<>>, <<<<"x">>>>},
         kids \in SeqsUpTo(RenderKids, MaxChildren) \ {<<>>}}

RenderInputs == RenderLeaves \cup RenderParents

RenderInit ==
    /\ ReloadIdle
    /\ BuildIdle
    /\ StyleIdle
    /\ HexIdle
    /\ component \in RenderInputs
    /\ rendered = NoRendered
    /\ rpc = "call"

RenderComponent ==
    /\ rpc = "call"
    /\ LET r == render_component(component) IN
           /\ rpc' = IF r.panic THEN "panicked" ELSE "done"
           /\ rendered' = r.value
    /\ UNCHANGED <<component, reloadVars, buildVars, styleVars, hexVars>>

RenderNext == RenderComponent

RenderSpec == RenderInit /\ [][RenderNext]_vars

(***************************************************************************)
(* Shapes of a markup text, read off the text itself.                      *)
(***************************************************************************)
\* The text given to the build, tag by tag and run by run.
Tokens == markup

\* Some end tag does not name the innermost start tag still open.
RECURSIVE MismatchedEnd(_, _)
MismatchedEnd(toks, open) ==
    IF toks = <<>> THEN FALSE
    ELSE LET k == Head(toks) IN
         CASE k.t = "start" -> MismatchedEnd(Tail(toks), Append(open, k.n))
           [] k.t = "end" ->
                  IF open = <<>> \/ Last(open) # k.n THEN TRUE
                  ELSE MismatchedEnd(Tail(toks), Front(open))
           [] OTHER -> MismatchedEnd(Tail(toks), open)

\* The start tags still open after toks, every end tag having matched.
RECURSIVE OpenAfter(_, _)
OpenAfter(toks, open) ==
    IF toks = <<>> THEN open
    ELSE LET k == Head(toks) IN
         CASE k.t = "start" -> OpenAfter(Tail(toks), Append(open, k.n))
           [] k.t = "end" -> OpenAfter(Tail(toks), Front(open))
           [] OTHER -> OpenAfter(Tail(toks), open)

\* No byte-level malformed construct, and every attribute the reader
\* yields as Ok and every text run can be unescaped.
NoBadMarkup(toks) ==
    \A i \in 1..Len(toks) : toks[i].t # "bad" /\ ~EventPanics(toks[i])

\* The text ends while a start tag is open, and is otherwise sound.
UnclosedAtEof(toks) ==
    /\ NoBadMarkup(toks)
    /\ ~MismatchedEnd(toks, <<>>)
    /\ OpenAfter(toks, <<>>) # <<>>

Prefix(q, n) == SubSeq(q, 1, n)

\* One root element, every tag closed, nothing outside the root.
WellFormed(toks) ==
    /\ toks # <<>>
    /\ NoBadMarkup(toks)
    /\ ~MismatchedEnd(toks, <<>>)
    /\ OpenAfter(toks, <<>>) = <<>>
    /\ toks[1].t \in {"start", "empty"}
    /\ toks[1].t = "empty" => Len(toks) = 1
    /\ \A i \in 1..(Len(toks) - 1) : OpenAfter(Prefix(toks, i), <<>>) # <<>>

RECURSIVE TagNames(_)
TagNames(toks) ==
    IF toks = <<>> THEN <<>>
    ELSE IF Head(toks).t \in {"start", "empty"}
         THEN <<local_name(Head(toks).n)>> \o TagNames(Tail(toks))
         ELSE TagNames(Tail(toks))

RECURSIVE SumSeq(_)
SumSeq(q) == IF q = <<>> THEN 0 ELSE Head(q) + SumSeq(Tail(q))

RECURSIVE NodeCount(_)
NodeCount(c) ==
    1 + SumSeq([i \in 1..Len(c.children) |-> NodeCount(c.children[i])])

\* Element names, each node before its children, children left to right.
RECURSIVE Preorder(_)
Preorder(c) ==
    <<c.elem>>
        \o Concat([i \in 1..Len(c.children) |-> Preorder(c.children[i])])

\* No element: text runs and comments only.
TextOnly(toks) == \A i \in 1..Len(toks) : toks[i].t \in {"text", "other"}

\* C12: a markup text with no element at all (the empty text, or text runs
\* only, each of which can be unescaped) never makes the build fail, and
\* the build returns the error placeholder: tag "error", text "error", no
\* attributes, no children.
C12_EmptyInputGivesErrorNode ==
    (TextOnly(Tokens) /\ NoBadMarkup(Tokens)) =>
        /\ bpc # "panicked"
        /\ bpc = "done" =>
               result = [elem |-> <<"e", "r", "r", "o", "r">>,
                         text |-> <<<<"e", "r", "r", "o", "r">>>>,
                         attributes |-> <<>>, children |-> <<>>]

\* x<!---->y: two text runs and a comment, no element.
C12_Witness ==
    /\ input = <<"x", "<", "!", "-", "-", "-", "-", ">", "y">>
    /\ bpc = "done"
    /\ result.elem = <<"e", "r", "r", "o", "r">>

\* C13: when some end tag does not name the innermost open start tag, the
\* build never returns a tree: it cannot reach the end of the stream, and
\* the only way out of the loop is the failure on the reader's error.
C13_MismatchedEndFails ==
    MismatchedEnd(Tokens, <<>>) =>
        /\ bpc # "done"
        /\ bpc = "loop" => evs # <<>>

\* <a><x:b></y:b>: the end tag has the local name of the open tag but not
\* its name.
C13_Witness ==
    /\ input = <<"<", "a", ">", "<", "x", ":", "b", ">", "<", "/", "y", ":",
               "b", ">">>
    /\ bpc = "panicked"
    /\ Len(stack) = 2

\* C14 as stated: when the text ends while a start tag is still open, the
\* build fails and returns no node.
C14_UnclosedTagFails ==
    UnclosedAtEof(Tokens) => bpc # "done"

\* C15: for a well-formed text with one root, the tree returned has one
\* node per start or self-closing tag, and its nodes, parents first and
\* children left to right, are the tags in document order.
C15_OneNodePerTagInOrder ==
    (bpc = "done" /\ WellFormed(Tokens)) =>
        /\ NodeCount(result) = Len(TagNames(Tokens))
        /\ Preorder(result) = TagNames(Tokens)

\* <x:b><a></a></x:b>
C15_Witness ==
    /\ input = <<"<", "x", ":", "b", ">", "<", "a", ">", "<", "/", "a", ">",
                 "<", "/", "x", ":", "b", ">">>
    /\ bpc = "done"
    /\ Preorder(result) = <<<<"b">>, <<"a">>>>

\* The style fields a class name writes, and what it writes there.
OpsOf(q) == <<>> \o [i \in 1..Len(q) |-> resolve_class(q[i]).ops]
SlotsOfOps(ops) == UNION {Targets(ops[i].method) : i \in 1..Len(ops)}
SlotsOf(class_name) == SlotsOfOps(resolve_class(class_name).ops)

Max(S) == CHOOSE x \in S : \A y \in S : y <= x

Reorder(q, f) == [i \in 1..Len(q) |-> q[f[i]]]

DistinctSlots(q) ==
    LET slots == <<>> \o [i \in 1..Len(q) |-> SlotsOf(q[i])]
    IN  \A i, j \in 1..Len(q) : i # j => slots[i] \cap slots[j] = {}

\* C16: class names are resolved left to right and the last one written to
\* a style field wins ("h-4 h-8" gives the height of h-8); when the class
\* names write distinct fields, every order of them gives the same style.
C16_LastClassWins ==
    spc = "done" =>
        /\ LET ops == OpsOf(class_list)
               slots == <<>> \o [i \in 1..Len(class_list) |->
                                     SlotsOfOps(ops[i])]
           IN  \A k \in StyleSlots :
                   LET at == {i \in 1..Len(class_list) : k \in slots[i]}
                   IN  element.style[k] =
                           IF at = {} THEN <<>>
                           ELSE Written(ops[Max(at)][1])
        /\ DistinctSlots(class_list) =>
               \A f \in Permutations(1..Len(class_list)) :
                   LET other == <<<<<<"c", "l", "a", "s", "s">>,
                                    Join(Reorder(class_list, f),
                                         <<" ">>)>>>>
                   IN  set_attributes(NewElement, other).element.style
                           = element.style

C16_Witness ==
    /\ class_list = <<h_4, w_4, h_8>>
    /\ spc = "done"
    /\ element.style["height"] = <<Rems(F32(1, 1))>>
    /\ element.style["width"] = <<Rems(F32(1, 0))>>

\* The literal is '#' and six hexadecimal digits.
SixDigitLiteral(h) ==
    /\ Len(h) = 7
    /\ h[1] = "#"
    /\ \A i \in 2..7 : IsHexDigit(h[i])

PairValue(h, i) == 16 * to_digit(h[i]) + to_digit(h[i + 1])

\* C17: a literal #RRGGBB yields the color whose red, green and blue
\* channels are RR, GG and BB read as hexadecimal, its packed value being
\* RR * 65536 + GG * 256 + BB.
C17_HexLiteralChannels ==
    SixDigitLiteral(hex) =>
        /\ hpc # "panicked"
        /\ hpc = "done" =>
               /\ color.r = PairValue(hex, 2)
               /\ color.g = PairValue(hex, 4)
               /\ color.b = PairValue(hex, 6)
               /\ color.value = PairValue(hex, 2) * 65536
                                    + PairValue(hex, 4) * 256
                                    + PairValue(hex, 6)

C17_Witness ==
    /\ hex = <<"#", "c", "F", "0", "9", "9", "c">>
    /\ hpc = "done"
    /\ color.value = 13568412

\* C18 as stated: a malformed color literal is an error of its own class
\* name only; the resolution of the element is never aborted.
C18_MalformedColorDoesNotAbort ==
    spc # "panicked"

\* A class name of neither the table nor a parameterized pattern.
Unrecognized(class_name) ==
    /\ static_class(class_name) = ""
    /\ ~StartsWith(class_name, bg_prefix)
    /\ ~StartsWith(class_name, text_color_prefix)
    /\ ~StartsWith(class_name, rounded_prefix)

\* C19: visiting a class name that is in neither the table nor a
\* parameterized pattern leaves the element as it was, and the loop goes
\* on to the next class name.
C19_UnknownClassIsIgnored ==
    [][(spc = "loop" /\ classes # <<>> /\ Unrecognized(Head(classes))) =>
           /\ element' = element
           /\ classes' = Tail(classes)
           /\ spc' = "loop"]_vars

C19_Witness ==
    /\ class_list = <<frobnicate_9, h_4>>
    /\ spc = "done"
    /\ element.ops = <<Op("h_4", NoArg)>>

\* The length a number and a unit denote.
LengthOf(num, unit) ==
    IF unit = px_unit THEN Pixels(parse_f32(num).value)
    ELSE Rems(parse_f32(num).value)

\* C20 as stated: visiting rounded-<direction>-<number><unit> applies the
\* rounding of that direction with that number in that unit, and
\* rounded-<number><unit> applies it to all corners.
C20_RoundedTakesNumberAndUnit ==
    [][\A d \in RoundedDirs \cup {<<>>}, n \in RoundedNumbers,
          u \in RoundedUnits :
           (spc = "loop" /\ classes # <<>>
                /\ Head(classes) = RoundedClass(d, n, u)) =>
               element'.ops =
                   Append(element.ops, Op(RoundedMethod(d), LengthOf(n, u)))
      ]_vars

\* Where a key occurs in an attribute sequence.
Occurrences(attrs, key) == {i \in 1..Len(attrs) : attrs[i][1] = key}

Min(S) == CHOOSE x \in S : \A y \in S : x <= y

\* The components on which render_component calls set_attributes.
IsStyled(c) ==
    \/ c.elem = <<"d", "i", "v">>
    \/ c.elem = <<"i", "m", "g">> /\ Occurrences(c.attributes, <<"s", "r", "c">>) # {}
    \/ c.elem = <<"s", "v", "g">> /\ Occurrences(c.attributes, <<"p", "a", "t", "h">>) # {}

\* The element is the one the occurrences at(key) of src, path and class
\* alone would give.
LookupUses(at(_)) ==
    LET attrs == component.attributes IN
    rpc = "done" =>
        /\ (component.elem = <<"i", "m", "g">> /\ Occurrences(attrs, <<"s", "r", "c">>) # {}) =>
               rendered.source = <<attrs[at(<<"s", "r", "c">>)][2]>>
        /\ (component.elem = <<"s", "v", "g">> /\ Occurrences(attrs, <<"p", "a", "t", "h">>) # {}) =>
               rendered.source = <<attrs[at(<<"p", "a", "t", "h">>)][2]>>
        /\ (IsStyled(component) /\ Occurrences(attrs, <<"c", "l", "a", "s", "s">>) # {}) =>
               rendered.el =
                   set_attributes(NewElement,
                                  <<attrs[at(<<"c", "l", "a", "s", "s">>)]>>).element

LastOccurrence(key) == Max(Occurrences(component.attributes, key))
FirstOccurrence(key) == Min(Occurrences(component.attributes, key))

\* C21 as stated: when a key occurs more than once among the attributes,
\* looking up src, path or class uses the value of its last occurrence.
C21_LastOccurrenceWins == LookupUses(LastOccurrence)

\* C21 amended: when a key occurs more than once among the attributes,
\* looking up src, path or class uses the value of its first occurrence.
C21_FirstOccurrenceWins == LookupUses(FirstOccurrence)

C21_Witness ==
    /\ component.elem = <<"i", "m", "g">>
    /\ component.attributes = <<<<<<"s", "r", "c">>, <<"a">>>>, <<<<"s", "r", "c">>, <<"b">>>>>>
    /\ rpc = "done"
    /\ rendered.source = <<<<"a">>>>

\* An image without a src attribute, or a vector without a path attribute.
MissingRequired(c) ==
    \/ c.elem = <<"i", "m", "g">> /\ Occurrences(c.attributes, <<"s", "r", "c">>) = {}
    \/ c.elem = <<"s", "v", "g">> /\ Occurrences(c.attributes, <<"p", "a", "t", "h">>) = {}

\* Some class attribute in c aborts set_attributes (a malformed color).
RECURSIVE HasAbortingClass(_)
HasAbortingClass(c) ==
    \/ IsStyled(c) /\ set_attributes(NewElement, c.attributes).panic
    \/ /\ c.elem = <<"d", "i", "v">>
       /\ \E i \in 1..Len(c.children) : HasAbortingClass(c.children[i])

\* An unstyled Div whose only child is the error text.
IsErrorText(r) ==
    /\ r.kind = "Div"
    /\ r.el = NewElement
    /\ Len(r.children) = 1
    /\ r.children[1].kind = "Text"
    /\ r.children[1].text = <<missing_src_text>>

\* r is c rendered, each element missing its required attribute being the
\* error text and every other element being what its own fields give.
RECURSIVE Confined(_, _)
Confined(c, r) ==
    CASE MissingRequired(c) -> IsErrorText(r)
      [] c.elem = <<"d", "i", "v">> ->
             /\ r.kind = "Div"
             /\ r.el = set_attributes(NewElement, c.attributes).element
             /\ Len(r.children) =
                    Len(c.children) + (IF c.text = <<>> THEN 0 ELSE 1)
             /\ \A i \in 1..Len(c.children) :
                    Confined(c.children[i], r.children[i])
             /\ c.text # <<>> =>
                    /\ Last(r.children).kind = "Text"
                    /\ Last(r.children).text = c.text
      [] c.elem \in {<<"i", "m", "g">>, <<"s", "v", "g">>} /\ ~MissingRequired(c) ->
             /\ r.kind = IF c.elem = <<"i", "m", "g">> THEN "Img" ELSE "Svg"
             /\ r.el = set_attributes(NewElement, c.attributes).element
             /\ r.children = <<>>
      [] OTHER -> r.kind = "Div" /\ r.children = <<>>

\* C22: an image without src, or a vector without path, is rendered as the
\* placeholder error text; that never aborts the rendering, and every other
\* element of the tree, sibling or ancestor, is rendered as its own fields
\* give.
C22_MissingAttributeIsConfined ==
    /\ rpc = "panicked" => HasAbortingClass(component)
    /\ rpc = "done" => Confined(component, rendered)

C22_Witness ==
    /\ component.elem = <<"d", "i", "v">>
    /\ Len(component.children) = 2
    /\ component.children[1].elem = <<"d", "i", "v">>
    /\ Len(component.children[1].children) = 2
    /\ MissingRequired(component.children[1].children[1])
    /\ component.children[2].elem = <<"s", "v", "g">>
    /\ rpc = "done"
    /\ IsErrorText(rendered.children[1].children[1])
    /\ rendered.children[1].children[2].kind = "Div"
    /\ rendered.children[2].kind = "Svg"

\* An event is on its way to the task, or the task has taken one.
EventInHand ==
    \/ pending # <<>>
    \/ chan # <<>>
    \/ rcvd # <<>>
    \/ started # <<>>
    \/ inflight > 0
    \/ pc \in {"read", "parse"}

\* C23: no filesystem event is delivered to the task, taken by it or
\* reparsed for before the first parse has published a tree and the
\* recursive watch is registered.
C23_EventsOnlyAfterStartup ==
    EventInHand =>
        /\ pc \notin {"start", "startread", "spawned"}
        /\ root_component # NoComponent

C23_Witness ==
    /\ nev = 2
    /\ rcvd # <<>>
    /\ rcvd[1].id = 2
    /\ pc = "read"
    /\ root_component # NoComponent

\* The loop is about to handle an event of kind t.
Handling(t) == bpc = "loop" /\ evs # <<>> /\ Head(evs).t = t

\* C24: on an end event with more than one node on the stack, the top is
\* popped and becomes the last child of the new top; with exactly one node
\* the stack is left as it is; so while the loop runs, a stack that holds a
\* node never becomes empty.
C24_EndPopsUnlessRoot ==
    [][/\ (Handling("end") /\ Len(stack) > 1) =>
              LET n == Len(stack) IN
              /\ Len(stack') = n - 1
              /\ SubSeq(stack', 1, n - 2) = SubSeq(stack, 1, n - 2)
              /\ stack'[n - 1] =
                     [stack[n - 1] EXCEPT
                          !.children = Append(@, stack[n])]
       /\ (Handling("end") /\ Len(stack) = 1) => stack' = stack
       /\ (stack # <<>> /\ bpc' = "loop") => stack' # <<>>
      ]_vars

\* <a><x:b></x:b></a>
C24_Witness ==
    /\ input = <<"<", "a", ">", "<", "x", ":", "b", ">", "<", "/", "x", ":",
               "b", ">", "<", "/", "a", ">">>
    /\ bpc = "loop"
    /\ evs = <<>>
    /\ Len(stack) = 1
    /\ Len(stack[1].children) = 1

\* How many start tags are open after the first k tokens.
Depth(toks, k) == Len(OpenAfter(Prefix(toks, k), <<>>))

\* The last text run directly inside the element whose tag is token i of a
\* well-formed text: <<>> when there is none.
TextInside(toks, i) ==
    IF toks[i].t = "empty" THEN <<>>
    ELSE LET d == Depth(toks, i)
             close == Min({k \in (i + 1)..Len(toks) : Depth(toks, k) < d})
             runs == {k \in (i + 1)..(close - 1) :
                          toks[k].t = "text" /\ Depth(toks, k) = d}
         IN  IF runs = {} THEN <<>>
             ELSE <<unescape(toks[Max(runs)].text).value>>

RECURSIVE TextsFrom(_, _)
TextsFrom(toks, i) ==
    IF i > Len(toks) THEN <<>>
    ELSE (IF toks[i].t \in {"start", "empty"}
          THEN <<TextInside(toks, i)>> ELSE <<>>)
             \o TextsFrom(toks, i + 1)

\* The text fields, each node before its children.
RECURSIVE PreorderTexts(_)
PreorderTexts(c) ==
    <<c.text>>
        \o Concat([i \in 1..Len(c.children) |->
                       PreorderTexts(c.children[i])])

\* The loop is about to handle a text event whose run can be unescaped.
HandlingText == Handling("text") /\ ~EventPanics(Head(evs))

\* C25: a text event sets the text of the node on top of the stack,
\* whatever text it had, and changes nothing when the stack is empty; so
\* the tree built from a well-formed text holds, in each node, the last
\* text run directly inside its element.  (The text is the unescaped run;
\* a run that cannot be unescaped is malformed markup.)
C25_LastTextRunIsKept ==
    [][/\ (HandlingText /\ stack # <<>>) =>
              stack' = [stack EXCEPT
                            ![Len(stack)].text =
                                <<unescape(Head(evs).text).value>>]
       /\ (HandlingText /\ stack = <<>>) =>
              (stack' = stack /\ bpc' = "loop")
       /\ (bpc' = "done" /\ WellFormed(Tokens)) =>
              PreorderTexts(result') = TextsFrom(Tokens, 1)
      ]_vars

\* <a>x<!---->y</a>
C25_Witness ==
    /\ input = <<"<", "a", ">", "x", "<", "!", "-", "-", "-", "-", ">", "y",
               "<", "/", "a", ">">>
    /\ bpc = "done"
    /\ result.text = <<<<"y">>>>

\* The events the loop has handled when those of rest are left.
Handled(rest) ==
    LET all == read_events(Tokens, <<>>) IN
    SubSeq(all, 1, Len(all) - Len(rest))

\* The element names on the stack and beneath it, bottom to top, each node
\* before its children.
StackNodes == Concat([i \in 1..Len(stack) |-> Preorder(stack[i])])

IsPrefixOf(p, q) == Len(p) <= Len(q) /\ SubSeq(q, 1, Len(p)) = p

\* C26: while the loop runs, the nodes on the stack and beneath it are the
\* start tags handled so far, each once and in document order, and a step
\* only adds to the end of a node's children: no node is appended twice,
\* to two parents, or moved.
C26_NodesAreAppendedOnce ==
    [][/\ bpc' \in {"loop", "panicked"} =>
              StackNodes' = TagNames(Handled(evs'))
       /\ \A i \in 1..Len(stack) :
              i <= Len(stack') =>
                  IsPrefixOf(stack[i].children, stack'[i].children)
      ]_vars

\* <a><x:b/><x:b><a>
C26_Witness ==
    /\ input = <<"<", "a", ">", "<", "x", ":", "b", "/", ">", "<", "x", ":",
               "b", ">", "<", "a", ">">>
    /\ bpc = "loop"
    /\ evs = <<>>
    /\ StackNodes = <<<<"a">>, <<"b">>, <<"b">>, <<"a">>>>

\* C27: the lock on the shared tree is held only between taking it for a
\* reparse and the swap; whenever the task is suspended waiting for the
\* next filesystem event, or has not started its loop, the lock is free.
C27_LockFreeWhileWaiting ==
    /\ pc \in {"start", "startread", "spawned", "await", "read"} =>
           lock = "free"
    /\ lock = "held" => (prog = "root" /\ pc = "parse")

C27_Witness ==
    /\ prog = "root"
    /\ pc = "await"
    /\ published
    /\ rcvd # <<>>
    /\ lock = "free"

\* C28: visiting a rounded class name whose unit is neither px nor rem
\* applies its rounding with a length of zero pixels, raises no error, and
\* the loop goes on to the next class name.
C28_UnknownUnitIsZeroPixels ==
    [][\A d \in RoundedDirs \cup {<<>>}, n \in RoundedNumbers,
          u \in UnknownUnits :
           (spc = "loop" /\ classes # <<>>
                /\ Head(classes) = RoundedClass(d, n, u)) =>
               /\ element'.ops =
                      Append(element.ops,
                             Op(RoundedMethod(d), Pixels(f32_zero)))
               /\ classes' = Tail(classes)
               /\ spc' = "loop"
      ]_vars

C28_Witness ==
    /\ class_list = <<RoundedClass(<<>>, <<"4">>, em_unit), h_4>>
    /\ spc = "done"
    /\ element.ops = <<Op("rounded", Pixels(f32_zero)), Op("h_4", NoArg)>>
    /\ element.style["top_left"] = <<Pixels(f32_zero)>>
    /\ element.style["height"] = <<Rems(F32(1, 0))>>

\* The top-level elements of a text whose tags are all closed, in order.
RECURSIVE Segments(_)
Segments(toks) ==
    IF toks = <<>> THEN <<>>
    ELSE LET k == Min({i \in 1..Len(toks) : Depth(toks, i) = 0}) IN
         <<Prefix(toks, k)>> \o Segments(SubSeq(toks, k + 1, Len(toks)))

\* Every tag is closed, there is more than one top-level element, and no
\* text outside them.
MultiRoot(toks) ==
    /\ NoBadMarkup(toks)
    /\ ~MismatchedEnd(toks, <<>>)
    /\ OpenAfter(toks, <<>>) = <<>>
    /\ \A i \in 1..Len(toks) : toks[i].t = "text" => Depth(toks, i) > 0
    /\ Len(TagNames(toks)) > 1
    /\ Len(Segments(toks)) > 1

\* The tree of the first top-level element, with the trees of the later
\* ones appended to its children.
Adopted(toks) ==
    LET segs == Segments(toks)
        first == ComponentOf(read_events(segs[1], <<>>)).value
    IN  [first EXCEPT
             !.children = @ \o [i \in 1..(Len(segs) - 1) |->
                                    ComponentOf(read_events(segs[i + 1],
                                                            <<>>)).value]]

\* C29: for a text with more than one top-level element, all tags closed,
\* the build returns the first top-level element, and each later top-level
\* element is a child of it, after the first one's own children.
C29_LaterRootsBecomeChildren ==
    MultiRoot(Tokens) =>
        /\ bpc # "panicked"
        /\ bpc = "done" => result = Adopted(Tokens)

\* <a><x:b/></a><x:b/>
C29_Witness ==
    /\ input = <<"<", "a", ">", "<", "x", ":", "b", "/", ">", "<", "/", "a",
               ">", "<", "x", ":", "b", "/", ">">>
    /\ bpc = "done"
    /\ result.elem = <<"a">>
    /\ Len(result.children) = 2
    /\ result.children[2].elem = <<"b">>

\* The text with <x></x> written for every self-closing <x/>.
RECURSIVE WrittenOut(_)
WrittenOut(toks) ==
    IF toks = <<>> THEN <<>>
    ELSE LET k == Head(toks) IN
         (IF k.t = "empty"
          THEN <<StartTag(k.n, k.attrs), EndTag(k.n)>>
          ELSE <<k>>) \o WrittenOut(Tail(toks))

HasSelfClosing(toks) == \E i \in 1..Len(toks) : toks[i].t = "empty"

\* C30: a text with self-closing elements gives what the same text gives
\* with <x></x> in place of each <x/>: the same tree, or the same failure;
\* also when the self-closing element is the root.
C30_SelfClosingIsStartEnd ==
    HasSelfClosing(Tokens) =>
        LET written == ComponentOf(read_events(WrittenOut(Tokens), <<>>)) IN
        /\ bpc = "done" => (~written.panic /\ result = written.value)
        /\ bpc = "panicked" => written.panic

\* <x:b/>
C30_Witness ==
    /\ input = <<"<", "x", ":", "b", "/", ">">>
    /\ bpc = "done"
    /\ result = Component(<<"b">>, <<>>, <<>>, <<>>)

=============================================================================
